---- MODULE Spec2Model ----
(***************************************************************************)
(* Model of the activity monitoring server: the classification engine      *)
(* (server/analysis/activity_classifier.py), the activity store with its   *)
(* statistics (server/database/db_manager.py), the feature extractors      *)
(* (server/capture/stream_processor.py) and the sampling loop of           *)
(* server/main.py with its capture and notification collaborators.         *)
(*                                                                         *)
(* Numbers.  motion_percent is a percentage modelled by an integer.  The   *)
(* audio features (rms_level, zero_crossing_rate, mid_freq_ratio) are      *)
(* modelled in hundredths: the source's 0.1 is 10 here, 0.25 is 25.        *)
(* Timestamps are integer seconds, as in the source.  Reported durations   *)
(* are tenths of a minute (the source rounds minutes to one decimal).      *)
(* The label strings are the source's, without accents.                    *)
(***************************************************************************)
EXTENDS Integers, Sequences, FiniteSets, TLC

VARIABLES
    model,        \* ActivityClassifier.model: [loaded, fits]
    rule_based,   \* ActivityClassifier.rule_based
    args,         \* the bundles classify is called with, and what predict does
    activities,   \* the rows of table activities, in insertion (id) order
    ret,          \* what the most recent operation returned
    audio_sample_rate,  \* StreamProcessor.audio_sample_rate
    previous_frame,     \* StreamProcessor.previous_frame: << >> is None
    last_processed,     \* history: the last frame process_video returned a
                        \* bundle for, << >> when there was none
    connected,    \* OBSCapture.connected
    last_classification_time,  \* the local of start_activity_monitoring
    clock,        \* the wall clock, time.time()
    wait,         \* the seconds of the sleep the loop is in, or last was in
    pc,           \* where start_activity_monitoring stands
    cycles        \* the cycles the loop has begun

streamVars == <<audio_sample_rate, previous_frame, last_processed>>
loopVars == <<connected, last_classification_time, clock, wait, pc, cycles>>

vars == <<model, rule_based, args, activities, ret, streamVars, loopVars>>

(***************************************************************************)
(* Python values: a value the code calls .get on is either a dict or not.  *)
(***************************************************************************)
None == [kind |-> "None", d |-> [k \in {} |-> 0]]
Malformed == [kind |-> "malformed", d |-> [k \in {} |-> 0]]
EmptyDict == [kind |-> "dict", d |-> [k \in {} |-> 0]]

IsDict(o) == o.kind = "dict"

\* dict.get(key, default)
Get(o, key, default) == IF key \in DOMAIN o.d THEN o.d[key] ELSE default

\* A dict with the given string keys; an optional entry is a sequence of
\* length 0 (key absent) or 1 (key present with that value).
Present(opts) == {k \in DOMAIN opts : Len(opts[k]) = 1}
Dict(opts) == [kind |-> "dict", d |-> [k \in Present(opts) |-> opts[k][1]]]

Opt(S) == {<< >>} \cup {<<x>> : x \in S}

(***************************************************************************)
(* ActivityClassifier                                                      *)
(***************************************************************************)
activity_classes ==
    << "endormi", "a table", "lisant", "au telephone", "en conversation",
       "occupe", "inactif" >>

Labels == {activity_classes[i] : i \in DOMAIN activity_classes}

Raised == [raised |-> TRUE, value |-> ""]
Returned(v) == [raised |-> FALSE, value |-> v]

\* __init__: the four ways the constructor can go
ModelPaths == {"None", "not found", "unreadable", "valid"}

ActivityClassifier(model_path) ==
    IF model_path \notin {"None", "not found"}
    THEN IF model_path = "valid"
         THEN [model |-> [loaded |-> TRUE, fits |-> 0], rule_based |-> FALSE]
         ELSE [model |-> [loaded |-> FALSE, fits |-> 0], rule_based |-> TRUE]
    ELSE [model |-> [loaded |-> FALSE, fits |-> 0], rule_based |-> TRUE]

\* DecisionList with rule 2 testing the hue mean in place of the value mean
DecisionList_HueForValue(motion_percent, audio_level, zcr, mid_freq_ratio, hsv_means) ==
    IF motion_percent < 2 /\ audio_level < 10 THEN Returned("endormi")
    ELSE IF 5 < motion_percent /\ motion_percent < 15 /\ Len(hsv_means) < 3
    THEN Raised
    ELSE IF 5 < motion_percent /\ motion_percent < 15 /\ hsv_means[1] > 100
    THEN Returned("a table")
    ELSE IF 2 < motion_percent /\ motion_percent < 10 /\ audio_level < 20
    THEN Returned("lisant")
    ELSE IF audio_level > 30 /\ zcr > 5 /\ mid_freq_ratio > 40
            /\ motion_percent < 10
    THEN Returned("au telephone")
    ELSE IF audio_level > 25 /\ zcr > 5 /\ mid_freq_ratio > 40
            /\ motion_percent > 10
    THEN Returned("en conversation")
    ELSE IF motion_percent > 20 THEN Returned("occupe")
    ELSE Returned("inactif")

\* DecisionList with rule 1 closed at its motion threshold
DecisionList_ClosedThreshold(motion_percent, audio_level, zcr, mid_freq_ratio, hsv_means) ==
    IF motion_percent <= 2 /\ audio_level < 10 THEN Returned("endormi")
    ELSE IF 5 < motion_percent /\ motion_percent < 15 /\ Len(hsv_means) < 3
    THEN Raised
    ELSE IF 5 < motion_percent /\ motion_percent < 15 /\ hsv_means[3] > 100
    THEN Returned("a table")
    ELSE IF 2 < motion_percent /\ motion_percent < 10 /\ audio_level < 20
    THEN Returned("lisant")
    ELSE IF audio_level > 30 /\ zcr > 5 /\ mid_freq_ratio > 40
            /\ motion_percent < 10
    THEN Returned("au telephone")
    ELSE IF audio_level > 25 /\ zcr > 5 /\ mid_freq_ratio > 40
            /\ motion_percent > 10
    THEN Returned("en conversation")
    ELSE IF motion_percent > 20 THEN Returned("occupe")
    ELSE Returned("inactif")

\* DecisionList with rule 3 tried before rule 2
DecisionList_ReadingFirst(motion_percent, audio_level, zcr, mid_freq_ratio, hsv_means) ==
    IF motion_percent < 2 /\ audio_level < 10 THEN Returned("endormi")
    ELSE IF 2 < motion_percent /\ motion_percent < 10 /\ audio_level < 20
    THEN Returned("lisant")
    ELSE IF 5 < motion_percent /\ motion_percent < 15 /\ Len(hsv_means) < 3
    THEN Raised
    ELSE IF 5 < motion_percent /\ motion_percent < 15 /\ hsv_means[3] > 100
    THEN Returned("a table")
    ELSE IF audio_level > 30 /\ zcr > 5 /\ mid_freq_ratio > 40
            /\ motion_percent < 10
    THEN Returned("au telephone")
    ELSE IF audio_level > 25 /\ zcr > 5 /\ mid_freq_ratio > 40
            /\ motion_percent > 10
    THEN Returned("en conversation")
    ELSE IF motion_percent > 20 THEN Returned("occupe")
    ELSE Returned("inactif")

\* The decision list, on the extracted values.  hsv_means is the tuple as
\* found in the features; indexing a tuple shorter than 3 raises.
DecisionList(motion_percent, audio_level, zcr, mid_freq_ratio, hsv_means) ==
    IF motion_percent < 2 /\ audio_level < 10 THEN Returned("endormi")
    ELSE IF 5 < motion_percent /\ motion_percent < 15 /\ Len(hsv_means) < 3
    THEN Raised
    ELSE IF 5 < motion_percent /\ motion_percent < 15 /\ hsv_means[3] > 100
    THEN Returned("a table")
    ELSE IF 2 < motion_percent /\ motion_percent < 10 /\ audio_level < 20
    THEN Returned("lisant")
    ELSE IF audio_level > 30 /\ zcr > 5 /\ mid_freq_ratio > 40
            /\ motion_percent < 10
    THEN Returned("au telephone")
    ELSE IF audio_level > 25 /\ zcr > 5 /\ mid_freq_ratio > 40
            /\ motion_percent > 10
    THEN Returned("en conversation")
    ELSE IF motion_percent > 20 THEN Returned("occupe")
    ELSE Returned("inactif")

\* _rule_based_classification reading the features with d[key]: a missing
\* feature raises
_rule_based_classification_Strict(video_data, audio_data) ==
    IF ~IsDict(video_data) THEN Raised
    ELSE IF ~IsDict(audio_data) THEN Raised
    ELSE IF "features" \notin DOMAIN video_data.d \/ "features" \notin DOMAIN audio_data.d
    THEN Raised
    ELSE
      LET video_features == video_data.d["features"]
          audio_features == audio_data.d["features"]
      IN  IF ~IsDict(video_features) \/ ~IsDict(audio_features) THEN Raised
          ELSE IF {"motion_percent", "hsv_means"} \ DOMAIN video_features.d # {}
          THEN Raised
          ELSE IF {"rms_level", "zero_crossing_rate", "mid_freq_ratio"}
                    \ DOMAIN audio_features.d # {}
          THEN Raised
          ELSE DecisionList(
                 video_features.d["motion_percent"],
                 audio_features.d["rms_level"],
                 audio_features.d["zero_crossing_rate"],
                 audio_features.d["mid_freq_ratio"],
                 video_features.d["hsv_means"])

\* _rule_based_classification: every .get on a value that is no dict raises
_rule_based_classification(video_data, audio_data) ==
    IF ~IsDict(video_data) THEN Raised
    ELSE IF ~IsDict(audio_data) THEN Raised
    ELSE
      LET video_features == Get(video_data, "features", EmptyDict)
          audio_features == Get(audio_data, "features", EmptyDict)
      IN  IF ~IsDict(video_features) \/ ~IsDict(audio_features) THEN Raised
          ELSE DecisionList(
                 Get(video_features, "motion_percent", 0),
                 Get(audio_features, "rms_level", 0),
                 Get(audio_features, "zero_crossing_rate", 0),
                 Get(audio_features, "mid_freq_ratio", 0),
                 Get(video_features, "hsv_means", <<0, 0, 0>>))

\* np.argmax: the 0-based index of the first largest entry (p non-empty)
RECURSIVE ArgmaxFrom(_, _, _)
ArgmaxFrom(p, i, best) ==
    IF i > Len(p) THEN best - 1
    ELSE ArgmaxFrom(p, i + 1, IF p[i] > p[best] THEN i ELSE best)

Argmax(p) == ArgmaxFrom(p, 2, 1)

\* LabelOfIndex taking the index as 1-based
LabelOfIndex_OneBased(predicted_class_idx) ==
    IF 0 < predicted_class_idx /\ predicted_class_idx <= Len(activity_classes)
    THEN activity_classes[predicted_class_idx]
    ELSE "inactif"

\* The label for a predicted class index
LabelOfIndex(predicted_class_idx) ==
    IF 0 <= predicted_class_idx /\ predicted_class_idx < Len(activity_classes)
    THEN activity_classes[predicted_class_idx + 1]
    ELSE "inactif"

\* _model_based_classification; predict is what self.model.predict does on
\* this call: it raises, or returns the vector predictions[0]
_model_based_classification(video_data, audio_data, predict) ==
    IF ~IsDict(video_data) \/ ~IsDict(audio_data) THEN Raised
    ELSE IF ~IsDict(Get(audio_data, "features", EmptyDict)) THEN Raised
    ELSE IF predict.raised THEN Raised
    ELSE IF Len(predict.probs) = 0 THEN Raised
    ELSE Returned(LabelOfIndex(Argmax(predict.probs)))

\* Dispatch that retries with the rules when the model strategy raises
Dispatch_FallsBack(rb, video_data, audio_data, predict) ==
    IF rb \/ _model_based_classification(video_data, audio_data, predict).raised
    THEN [path |-> "rules",
          out |-> _rule_based_classification(video_data, audio_data)]
    ELSE [path |-> "model",
          out |-> _model_based_classification(video_data, audio_data, predict)]

\* The strategy classify dispatches to, and its outcome
Dispatch(rb, video_data, audio_data, predict) ==
    IF rb
    THEN [path |-> "rules",
          out |-> _rule_based_classification(video_data, audio_data)]
    ELSE [path |-> "model",
          out |-> _model_based_classification(video_data, audio_data, predict)]

\* Handle answering a failure with a label outside the list
Handle_Unknown(out) == IF out.raised THEN Returned("inconnu") ELSE out

\* Handle without the except clause
Handle_Propagates(out) == out

\* What the except clause of classify does with an outcome of the try body
Handle(out) == IF out.raised THEN Returned("inactif") ELSE out

\* classify raising on a bundle that is None
classify_RaisesOnMissing(rb, video_data, audio_data, predict) ==
    IF video_data.kind = "None" \/ audio_data.kind = "None"
    THEN [raised |-> TRUE, value |-> "", path |-> "missing"]
    ELSE LET r == Dispatch(rb, video_data, audio_data, predict)
             h == Handle(r.out)
         IN  [raised |-> h.raised, value |-> h.value,
              path |-> IF r.out.raised THEN "except" ELSE r.path]

\* classify: [raised, value, path]; path names the branch that produced it
classify(rb, video_data, audio_data, predict) ==
    IF video_data.kind = "None" \/ audio_data.kind = "None"
    THEN [raised |-> FALSE, value |-> "inactif", path |-> "missing"]
    ELSE LET r == Dispatch(rb, video_data, audio_data, predict)
             h == Handle(r.out)
         IN  [raised |-> h.raised, value |-> h.value,
              path |-> IF r.out.raised THEN "except" ELSE r.path]

\* train: [value, fitted]; fit is what self.model.fit does, save what
\* self.model.save does when save_path is given
train(mdl, training_data, fit, save_path, save) ==
    IF ~mdl.loaded THEN [value |-> "None", fitted |-> FALSE]
    ELSE IF ~IsDict(training_data) THEN [value |-> "None", fitted |-> FALSE]
    ELSE IF {"X_video", "X_audio", "y"} \ DOMAIN training_data.d # {}
    THEN [value |-> "None", fitted |-> FALSE]
    ELSE IF fit = "raises" THEN [value |-> "None", fitted |-> FALSE]
    ELSE IF save_path /\ save = "raises" THEN [value |-> "None", fitted |-> TRUE]
    ELSE [value |-> "history", fitted |-> TRUE]

(***************************************************************************)
(* Inputs of the classification engine                                     *)
(***************************************************************************)
MaxPredLen == 8    \* longest probability vector a model returns
MaxFits == 2       \* completed fits that are told apart

\* One value on each side of, and on, every threshold of the decision list
MotionVals == {1, 2, 4, 5, 8, 10, 12, 15, 20, 25}
AudioVals == {5, 10, 15, 20, 25, 30, 35}
ZcrVals == {5, 6}
MidVals == {40, 41}
HsvVals == {<<90, 60>>, <<90, 60, 100>>, <<90, 60, 150>>}
ProbVals == {0, 1}

VideoFeatures ==
    {Dict([motion_percent |-> m, hsv_means |-> h]) :
        m \in Opt(MotionVals), h \in Opt(HsvVals)}

AudioFeatures ==
    {Dict([rms_level |-> r, zero_crossing_rate |-> z, mid_freq_ratio |-> f]) :
        r \in Opt(AudioVals), z \in Opt(ZcrVals), f \in Opt(MidVals)}

\* A bundle as process_video / process_audio build it, the signal included
VideoBundle(features) ==
    Dict([processed_frame |-> <<"frame">>, features |-> <<features>>])
AudioBundle(features) ==
    Dict([processed_audio |-> <<"audio">>, features |-> <<features>>])

NoFeaturesVideo == Dict([processed_frame |-> <<"frame">>])
NoFeaturesAudio == Dict([processed_audio |-> <<"audio">>])

VideoBundles ==
    {None, Malformed, NoFeaturesVideo, VideoBundle(Malformed)}
        \cup {VideoBundle(f) : f \in VideoFeatures}
AudioBundles ==
    {None, Malformed, NoFeaturesAudio, AudioBundle(Malformed)}
        \cup {AudioBundle(f) : f \in AudioFeatures}

FullVideoFeatures == Dict([motion_percent |-> <<8>>, hsv_means |-> <<<<90, 60, 150>>>>])
FullAudioFeatures ==
    Dict([rms_level |-> <<35>>, zero_crossing_rate |-> <<6>>, mid_freq_ratio |-> <<41>>])

\* The model strategy forwards the features to predict without reading
\* them, so its bundles are told apart only by their shape.
ModelVideoBundles == {None, Malformed, EmptyDict, VideoBundle(FullVideoFeatures)}
ModelAudioBundles ==
    {None, Malformed, NoFeaturesAudio, AudioBundle(Malformed),
     AudioBundle(FullAudioFeatures)}

SeqsUpTo(S, n) == UNION {[1..k -> S] : k \in 0..n}

NoPredict == [raised |-> TRUE, probs |-> << >>]
PredictOutcomes ==
    {NoPredict} \cup {[raised |-> FALSE, probs |-> p] : p \in SeqsUpTo(ProbVals, MaxPredLen)}

VideoInputs(rb) == IF rb THEN VideoBundles ELSE ModelVideoBundles
AudioInputs(rb) == IF rb THEN AudioBundles ELSE ModelAudioBundles
PredictInputs(rb) == IF rb THEN {NoPredict} ELSE PredictOutcomes

TrainingInputs ==
    {None} \cup {Dict([X_video |-> a, X_audio |-> b, y |-> c]) :
                    a \in Opt({"a"}), b \in Opt({"a"}), c \in Opt({"a"})}

(***************************************************************************)
(* The classification engine: the state after construction, with the       *)
(* arguments of the behaviour's classify calls                             *)
(***************************************************************************)
NoArgs == [video |-> None, audio |-> None, predict |-> NoPredict]

DefaultSampleRate == 16000
ANALYSIS_INTERVAL == 300

\* The clock when the server starts: later than one interval after the
\* epoch, as every real clock is
StartTime == ANALYSIS_INTERVAL

\* StreamProcessor() as main constructs it
InitStreamProcessor ==
    /\ audio_sample_rate = DefaultSampleRate
    /\ previous_frame = << >>
    /\ last_processed = << >>

\* The sampling loop before start_activity_monitoring is entered
LoopNotStarted ==
    /\ connected = FALSE
    /\ last_classification_time = 0
    /\ clock = StartTime
    /\ wait = 0
    /\ pc = "not started"
    /\ cycles = 0

InitClassifier ==
    /\ \E model_path \in ModelPaths :
          /\ model = ActivityClassifier(model_path).model
          /\ rule_based = ActivityClassifier(model_path).rule_based
    /\ \E video_data \in VideoInputs(rule_based),
          audio_data \in AudioInputs(rule_based),
          predict \in PredictInputs(rule_based) :
          args = [video |-> video_data, audio |-> audio_data, predict |-> predict]
    /\ activities = << >>
    /\ ret = [op |-> "init"]
    /\ InitStreamProcessor
    /\ LoopNotStarted

Classify ==
    LET r == classify(rule_based, args.video, args.audio, args.predict)
    IN  /\ ret' = [op |-> "classify", raised |-> r.raised, value |-> r.value,
                   path |-> r.path]
        /\ UNCHANGED <<model, rule_based, args, activities, streamVars, loopVars>>

\* model.fits counts the fits that completed on the loaded model
Train ==
    \E training_data \in TrainingInputs, fit \in {"ok", "raises"},
       save_path \in BOOLEAN, save \in {"ok", "raises"} :
        LET r == train(model, training_data, fit, save_path, save)
        IN  /\ r.fitted => model.fits < MaxFits
            /\ model' = IF r.fitted THEN [model EXCEPT !.fits = @ + 1] ELSE model
            /\ ret' = [op |-> "train", value |-> r.value]
            /\ UNCHANGED <<rule_based, args, activities, streamVars, loopVars>>

NextClassifier == Classify \/ Train

SpecClassifier == InitClassifier /\ [][NextClassifier]_vars

(***************************************************************************)
(* The heuristic engine called again and again, each call with bundles of  *)
(* its own                                                                 *)
(***************************************************************************)
\* Bundles of the shape the extractors build, any feature present or not.
\* Besides the values the decision list reads, a bundle carries the
\* normalised signal, and its features carry skin_percent, the hue and
\* saturation means, dominant_frequency and the low and high ratios.
HeuristicVideoBundles ==
    {None} \cup
    {Dict([processed_frame |-> other[1],
           features |-> <<Dict([motion_percent |-> m, hsv_means |-> <<h>>,
                                skin_percent |-> other[2]])>>]) :
        m \in Opt({8, 25}),
        h \in {<<90, 60, 150>>, <<110, 20, 150>>, <<90, 60, 100>>, <<90, 60>>},
        other \in {<< <<"frame">>, << >> >>, << <<"other frame">>, <<60>> >>}}

HeuristicAudioBundles ==
    {None} \cup
    {Dict([processed_audio |-> other[1],
           features |-> <<Dict([rms_level |-> r,
                                zero_crossing_rate |-> speech[1],
                                mid_freq_ratio |-> speech[2],
                                dominant_frequency |-> other[2],
                                low_freq_ratio |-> other[3],
                                high_freq_ratio |-> other[4]])>>]) :
        r \in Opt({5, 35}),
        speech \in {<< << >>, << >> >>, << <<6>>, <<41>> >>, << <<6>>, <<40>> >>},
        other \in {<< <<"audio">>, << >>, << >>, << >> >>,
                   << <<"other audio">>, <<2000>>, <<25>>, <<34>> >>}}

\* The five values _rule_based_classification reads from two bundles that
\* are dicts, a missing one as its default; the value mean is hsv_means[2],
\* which a shorter tuple does not have
FiveValues(video_data, audio_data) ==
    LET video_features == Get(video_data, "features", EmptyDict)
        audio_features == Get(audio_data, "features", EmptyDict)
        hsv_means == Get(video_features, "hsv_means", <<0, 0, 0>>)
    IN  << Get(video_features, "motion_percent", 0),
           Get(audio_features, "rms_level", 0),
           Get(audio_features, "zero_crossing_rate", 0),
           Get(audio_features, "mid_freq_ratio", 0),
           IF Len(hsv_means) >= 3 THEN <<hsv_means[3]>> ELSE << >> >>

\* The heuristic engine, before its first call
InitHeuristic ==
    /\ \E model_path \in ModelPaths \ {"valid"} :
          /\ model = ActivityClassifier(model_path).model
          /\ rule_based = ActivityClassifier(model_path).rule_based
    /\ args = NoArgs
    /\ activities = << >>
    /\ ret = [op |-> "init"]
    /\ InitStreamProcessor
    /\ LoopNotStarted

\* A call of classify with bundles of its own; ret.before tells how the
\* call before it compares: whether it was a classify call on dict
\* bundles with the same five values, whether its bundles were the same
\* bundles, and its label
ClassifyCall ==
    \E video_data \in HeuristicVideoBundles, audio_data \in HeuristicAudioBundles :
      \E r \in {classify(rule_based, video_data, audio_data, NoPredict)} :
        /\ args' = [video |-> video_data, audio |-> audio_data, predict |-> NoPredict]
        /\ ret' = [op |-> "classify", raised |-> r.raised, value |-> r.value,
                   path |-> r.path,
                   before |->
                     IF /\ ret.op = "classify"
                        /\ IsDict(args.video) /\ IsDict(args.audio)
                        /\ IsDict(video_data) /\ IsDict(audio_data)
                        /\ FiveValues(args.video, args.audio)
                              = FiveValues(video_data, audio_data)
                     THEN [agreed |-> TRUE,
                           same |-> (args.video = video_data /\ args.audio = audio_data),
                           value |-> ret.value]
                     ELSE [agreed |-> FALSE, same |-> FALSE, value |-> ""]]
        /\ UNCHANGED <<model, rule_based, activities, streamVars, loopVars>>

NextHeuristic == ClassifyCall \/ Train

SpecHeuristic == InitHeuristic /\ [][NextHeuristic]_vars

(***************************************************************************)
(* DBManager: the activity store and its statistics                        *)
(*                                                                         *)
(* A row of table activities is [timestamp, activity, confidence]; its id *)
(* is its position in the variable activities (AUTOINCREMENT, and no row   *)
(* is ever deleted).  The clock is UTC.                                    *)
(***************************************************************************)
MaxRows == 3    \* rows the table holds at most

StatLabels == {"lisant", "occupe"}
TimeVals == {0, 100, 86500}
NowVals == {150, 200, 86600}
Periods == {"day", "week", "month", "year", "other"}

\* What the store does during one call: it answers, sqlite3.connect raises,
\* or a statement raises after the connection was opened
DbOutcomes == {"ok", "connect fails", "execute fails"}

SecondsPerDay == 86400

\* The calendar behind datetime(year, month, day), from days since the epoch
IsLeap(y) == (y % 4 = 0 /\ y % 100 # 0) \/ y % 400 = 0
DaysInYear(y) == IF IsLeap(y) THEN 366 ELSE 365
DaysInMonth(y, m) ==
    IF m = 2 THEN (IF IsLeap(y) THEN 29 ELSE 28)
    ELSE IF m \in {4, 6, 9, 11} THEN 30 ELSE 31

\* The first day (since the epoch) of the year holding day d, from year y on
RECURSIVE YearStartDay(_, _, _)
YearStartDay(d, y, first) ==
    IF d < first + DaysInYear(y) THEN [year |-> y, day |-> first]
    ELSE YearStartDay(d, y + 1, first + DaysInYear(y))

RECURSIVE MonthStartDay(_, _, _, _)
MonthStartDay(d, y, m, first) ==
    IF d < first + DaysInMonth(y, m) THEN first
    ELSE MonthStartDay(d, y, m + 1, first + DaysInMonth(y, m))

\* The start_time get_statistics derives from period and datetime.now()
PeriodStart(period, now) ==
    LET d == now \div SecondsPerDay
        ys == YearStartDay(d, 1970, 0)
    IN  CASE period = "day" -> d * SecondsPerDay
          [] period = "week" -> (d - ((d + 3) % 7)) * SecondsPerDay
          [] period = "month" -> MonthStartDay(d, ys.year, 1, ys.day) * SecondsPerDay
          [] period = "year" -> ys.day * SecondsPerDay
          [] OTHER -> now - SecondsPerDay

\* WHERE timestamp >= ?: the ids of the selected rows
Selected(rows, start_time) ==
    {i \in DOMAIN rows : rows[i].timestamp >= start_time}

\* OrderByTimestamp leaving the rows in the order of their insertion
RECURSIVE OrderByTimestamp_ById(_, _)
OrderByTimestamp_ById(rows, ids) ==
    IF ids = {} THEN << >>
    ELSE LET first == CHOOSE i \in ids : \A j \in ids : i <= j
         IN  <<[id |-> first, timestamp |-> rows[first].timestamp,
                activity |-> rows[first].activity]>>
                 \o OrderByTimestamp_ById(rows, ids \ {first})

\* ORDER BY timestamp, served by idx_timestamp: by timestamp, then by id
RECURSIVE OrderByTimestamp(_, _)
OrderByTimestamp(rows, ids) ==
    IF ids = {} THEN << >>
    ELSE LET first == CHOOSE i \in ids : \A j \in ids :
                        \/ rows[i].timestamp < rows[j].timestamp
                        \/ rows[i].timestamp = rows[j].timestamp /\ i <= j
         IN  <<[id |-> first, timestamp |-> rows[first].timestamp,
                activity |-> rows[first].activity]>>
                 \o OrderByTimestamp(rows, ids \ {first})

\* GROUP BY activity, COUNT(*)
Groups(rows, ids) == {rows[i].activity : i \in ids}
CountOf(rows, ids, activity) ==
    Cardinality({i \in ids : rows[i].activity = activity})

\* ORDER BY count DESC: every order of the groups with the counts not
\* increasing; SQL leaves the order of groups of equal count open
CountRowOrders(rows, ids) ==
    LET G == Groups(rows, ids)
        n == Cardinality(G)
    IN  {[i \in 1..n |-> [activity |-> f[i], count |-> CountOf(rows, ids, f[i])]] :
            f \in {g \in [1..n -> G] :
                     /\ \A i, j \in 1..n : i # j => g[i] # g[j]
                     /\ \A i \in 1..(n - 1) :
                          CountOf(rows, ids, g[i]) >= CountOf(rows, ids, g[i + 1])}}

\* A Python dict in insertion order: a sequence of [key, value]
DictKeys(d) == {d[i].key : i \in DOMAIN d}
DictGet(d, key, default) ==
    IF key \in DictKeys(d)
    THEN (CHOOSE e \in {d[i] : i \in DOMAIN d} : e.key = key).value
    ELSE default

\* AddDuration that assigns where it should add
AddDuration_Overwrites(d, key, duration) ==
    IF key \in DictKeys(d)
    THEN [i \in DOMAIN d |->
            IF d[i].key = key THEN [key |-> key, value |-> duration]
            ELSE d[i]]
    ELSE Append(d, [key |-> key, value |-> duration])

\* activity_durations[key] += duration, or = duration for a new key
AddDuration(d, key, duration) ==
    IF key \in DictKeys(d)
    THEN [i \in DOMAIN d |->
            IF d[i].key = key THEN [key |-> key, value |-> d[i].value + duration]
            ELSE d[i]]
    ELSE Append(d, [key |-> key, value |-> duration])

\* The loop over activities_timeline, from record i on
RECURSIVE TimelineLoop(_, _, _)
TimelineLoop(timeline, i, durations) ==
    IF i > Len(timeline) THEN durations
    ELSE TimelineLoop(timeline, i + 1,
            IF i > 1
            THEN AddDuration(durations, timeline[i - 1].activity,
                             timeline[i].timestamp - timeline[i - 1].timestamp)
            ELSE durations)

\* "if prev_activity and prev_timestamp": the last record exists, its
\* activity is not the empty string and its timestamp is not 0
LastIsOpen(timeline) ==
    /\ Len(timeline) > 0
    /\ timeline[Len(timeline)].activity # ""
    /\ timeline[Len(timeline)].timestamp # 0

\* activity_durations (seconds) as left by the loop and the last record
ActivityDurations(timeline, current_time) ==
    LET d == TimelineLoop(timeline, 1, << >>)
    IN  IF LastIsOpen(timeline)
        THEN AddDuration(d, timeline[Len(timeline)].activity,
                         current_time - timeline[Len(timeline)].timestamp)
        ELSE d

\* round(duration / 60, 1), in tenths of a minute.  A duration of 6k+3
\* seconds lies halfway between two tenths and Python's float decides it;
\* the time values of this model are even, so no such duration occurs.
RoundMinutes(duration) == (duration + 3) \div 6

\* MostFrequent comparing with >=
RECURSIVE MostFrequent_LastWins(_, _, _)
MostFrequent_LastWins(count_rows, i, most) ==
    IF i > Len(count_rows) THEN most
    ELSE MostFrequent_LastWins(count_rows, i + 1,
            IF most = "None"
               \/ count_rows[i].count >=
                    DictGet([j \in 1..i |-> [key |-> count_rows[j].activity,
                                             value |-> count_rows[j].count]],
                            most, 0)
            THEN count_rows[i].activity ELSE most)

\* The scan of the count rows for most_frequent_activity
RECURSIVE MostFrequent(_, _, _)
MostFrequent(count_rows, i, most) ==
    IF i > Len(count_rows) THEN most
    ELSE MostFrequent(count_rows, i + 1,
            IF most = "None"
               \/ count_rows[i].count >
                    DictGet([j \in 1..i |-> [key |-> count_rows[j].activity,
                                             value |-> count_rows[j].count]],
                            most, 0)
            THEN count_rows[i].activity ELSE most)

\* The scan of activity_durations.items() for longest_activity
RECURSIVE Longest(_, _, _)
Longest(durations, i, longest) ==
    IF i > Len(durations) THEN longest
    ELSE Longest(durations, i + 1,
            IF longest = "None"
               \/ durations[i].value > DictGet(durations, longest, 0)
            THEN durations[i].key ELSE longest)

\* The statistics mapping get_statistics builds once its queries answered
Statistics(rows, period, now, count_rows) ==
    LET start_time == PeriodStart(period, now)
        ids == Selected(rows, start_time)
        timeline == OrderByTimestamp(rows, ids)
        durations == ActivityDurations(timeline, now)
    IN  [period |-> period, start_time |-> start_time, end_time |-> now,
         timeline |-> timeline, count_rows |-> count_rows,
         seconds |-> durations,
         activity_counts |->
            [a \in {count_rows[i].activity : i \in DOMAIN count_rows} |->
                DictGet([j \in DOMAIN count_rows |->
                           [key |-> count_rows[j].activity,
                            value |-> count_rows[j].count]], a, 0)],
         activity_durations |->
            [a \in DictKeys(durations) |-> RoundMinutes(DictGet(durations, a, 0))],
         most_frequent_activity |-> MostFrequent(count_rows, 1, "None"),
         longest_activity |-> Longest(durations, 1, "None")]

\* get_statistics: [raised, error, statistics]
NoStatistics == Statistics(<< >>, "day", 0, << >>)

\* get_statistics taking the longest activity as max() of the durations,
\* which raises on an empty mapping
get_statistics_MaxOfEmpty(rows, period, now, db, count_rows) ==
    IF db = "connect fails"
    THEN [raised |-> TRUE, error |-> FALSE, statistics |-> NoStatistics]
    ELSE IF db = "execute fails" \/ Selected(rows, PeriodStart(period, now)) = {}
    THEN [raised |-> FALSE, error |-> TRUE, statistics |-> NoStatistics]
    ELSE [raised |-> FALSE, error |-> FALSE,
          statistics |-> Statistics(rows, period, now, count_rows)]

get_statistics(rows, period, now, db, count_rows) ==
    IF db = "connect fails"
    THEN [raised |-> TRUE, error |-> FALSE, statistics |-> NoStatistics]
    ELSE IF db = "execute fails"
    THEN [raised |-> FALSE, error |-> TRUE, statistics |-> NoStatistics]
    ELSE [raised |-> FALSE, error |-> FALSE,
          statistics |-> Statistics(rows, period, now, count_rows)]

\* "confidence=1.0", the default of save_activity's parameter
DefaultConfidence == 1

\* save_activity: [raised, none, id, rows]
save_activity(rows, timestamp, activity, confidence, db) ==
    IF db = "connect fails"
    THEN [raised |-> TRUE, none |-> FALSE, id |-> 0, rows |-> rows]
    ELSE IF db = "execute fails"
    THEN [raised |-> FALSE, none |-> TRUE, id |-> 0, rows |-> rows]
    ELSE [raised |-> FALSE, none |-> FALSE, id |-> Len(rows) + 1,
          rows |-> Append(rows, [timestamp |-> timestamp, activity |-> activity,
                                 confidence |-> confidence])]

\* reversed(s)
Reverse(s) == [i \in DOMAIN s |-> s[Len(s) + 1 - i]]

\* s[:n]
Take(s, n) == SubSeq(s, 1, IF n < Len(s) THEN n ELSE Len(s))

\* The WHERE clause get_activities builds: a bound that is None (the empty
\* option) adds no condition
InRange(rows, start_time, end_time) ==
    {i \in DOMAIN rows :
        /\ start_time # << >> => rows[i].timestamp >= start_time[1]
        /\ end_time # << >> => rows[i].timestamp <= end_time[1]}

\* get_activities: [raised, value]; ORDER BY timestamp DESC is served by
\* idx_timestamp read backwards, then LIMIT
get_activities(rows, start_time, end_time, limit, db) ==
    IF db = "connect fails" THEN [raised |-> TRUE, value |-> << >>]
    ELSE IF db = "execute fails" THEN [raised |-> FALSE, value |-> << >>]
    ELSE [raised |-> FALSE,
          value |-> Take(Reverse(OrderByTimestamp(rows,
                            InRange(rows, start_time, end_time))), limit)]

\* get_latest_activity: [raised, value]; value is the empty option for None
\* (no row, or the query failed), else the row that ORDER BY timestamp DESC
\* LIMIT 1 gives
get_latest_activity(rows, db) ==
    IF db = "connect fails" THEN [raised |-> TRUE, value |-> << >>]
    ELSE IF db = "execute fails" THEN [raised |-> FALSE, value |-> << >>]
    ELSE [raised |-> FALSE,
          value |-> Take(Reverse(OrderByTimestamp(rows, DOMAIN rows)), 1)]

\* init_db: [raised, value]; CREATE ... IF NOT EXISTS leaves the rows alone
init_db(db) ==
    IF db = "connect fails" THEN [raised |-> TRUE, value |-> FALSE]
    ELSE [raised |-> FALSE, value |-> (db = "ok")]

\* DBManager on its own: the engine is constructed without a model path
\* and takes no step
InitDB ==
    /\ model = ActivityClassifier("None").model
    /\ rule_based = ActivityClassifier("None").rule_based
    /\ args = NoArgs
    /\ activities = << >>
    /\ ret = [op |-> "init"]
    /\ InitStreamProcessor
    /\ LoopNotStarted

\* No caller in the repository passes a confidence or metadata
SaveActivity ==
    \E timestamp \in TimeVals, activity \in StatLabels, db \in DbOutcomes :
        LET r == save_activity(activities, timestamp, activity, DefaultConfidence, db)
        IN  /\ Len(r.rows) <= MaxRows
            /\ activities' = r.rows
            /\ ret' = [op |-> "save_activity", db |-> db, raised |-> r.raised,
                       none |-> r.none, id |-> r.id]
            /\ UNCHANGED <<model, rule_based, args, streamVars, loopVars>>

\* The rows the count query returns, in one of the orders it may return them
CountRows(rows, period, now, db) ==
    IF db = "ok"
    THEN CountRowOrders(rows, Selected(rows, PeriodStart(period, now)))
    ELSE {<< >>}

GetStatistics ==
    \E period \in Periods, now \in NowVals, db \in DbOutcomes :
      \E count_rows \in CountRows(activities, period, now, db) :
        \E r \in {get_statistics(activities, period, now, db, count_rows)} :
            /\ ret' = [op |-> "get_statistics", db |-> db, raised |-> r.raised,
                       error |-> r.error, statistics |-> r.statistics]
            /\ UNCHANGED <<model, rule_based, args, activities, streamVars, loopVars>>

RangeVals == Opt({100})
LimitVals == {1, 100}

GetActivities ==
    \E start_time \in RangeVals, end_time \in RangeVals, limit \in LimitVals,
       db \in DbOutcomes :
        \E r \in {get_activities(activities, start_time, end_time, limit, db)} :
            /\ ret' = [op |-> "get_activities", db |-> db, raised |-> r.raised,
                       value |-> r.value, start_time |-> start_time,
                       end_time |-> end_time, limit |-> limit]
            /\ UNCHANGED <<model, rule_based, args, activities, streamVars, loopVars>>

GetLatestActivity ==
    \E db \in DbOutcomes :
        \E r \in {get_latest_activity(activities, db)} :
            /\ ret' = [op |-> "get_latest_activity", db |-> db,
                       raised |-> r.raised, value |-> r.value]
            /\ UNCHANGED <<model, rule_based, args, activities, streamVars, loopVars>>

InitDb ==
    \E db \in DbOutcomes :
        \E r \in {init_db(db)} :
            /\ ret' = [op |-> "init_db", db |-> db,
                       raised |-> r.raised, value |-> r.value]
            /\ UNCHANGED <<model, rule_based, args, activities, streamVars, loopVars>>

NextDB ==
    SaveActivity \/ GetStatistics \/ GetActivities \/ GetLatestActivity \/ InitDb

SpecDB == InitDB /\ [][NextDB]_vars

(***************************************************************************)
(* StreamProcessor: the feature extractors                                 *)
(*                                                                         *)
(* A frame is a row of BGR pixels, an audio buffer a row of integer        *)
(* samples.  hsv_means keeps the whole part of each mean and rms_level     *)
(* the first two decimals; with the pixels and samples of this model no    *)
(* value comes within one unit of a threshold the classifier tests.        *)
(***************************************************************************)
NoFrame == [kind |-> "None", px |-> << >>]
BadFrame == [kind |-> "malformed", px |-> << >>]
Image(px) == [kind |-> "image", px |-> px]

Abs(x) == IF x < 0 THEN -x ELSE x
Max2(a, b) == IF a > b THEN a ELSE b
Min2(a, b) == IF a < b THEN a ELSE b

\* a / b rounded to the nearest integer (b > 0)
RoundDiv(a, b) == (2 * a + b) \div (2 * b)

RECURSIVE Sum(_)
Sum(s) == IF s = << >> THEN 0 ELSE s[1] + Sum(Tail(s))

\* cv2.cvtColor(frame, COLOR_BGR2GRAY) on one 8-bit pixel <<B, G, R>>
Gray(p) == (p[1] * 1868 + p[2] * 9617 + p[3] * 4899 + 8192) \div 16384

GrayImage(px) == [i \in DOMAIN px |-> Gray(px[i])]

\* cv2.cvtColor(frame, COLOR_BGR2HSV) on one 8-bit pixel: <<H, S, V>>
Hsv(p) ==
    LET v == Max2(p[1], Max2(p[2], p[3]))
        lo == Min2(p[1], Min2(p[2], p[3]))
        diff == v - lo
        h == IF diff = 0 THEN 0
             ELSE IF v = p[3] THEN RoundDiv(30 * (p[2] - p[1]), diff)
             ELSE IF v = p[2] THEN 60 + RoundDiv(30 * (p[1] - p[3]), diff)
             ELSE 120 + RoundDiv(30 * (p[3] - p[2]), diff)
    IN  << IF h < 0 THEN h + 180 ELSE h,
           IF v = 0 THEN 0 ELSE RoundDiv(255 * diff, v),
           v >>

\* cv2.resize of a grayscale row to n pixels (bilinear): a single pixel is
\* spread, two pixels are averaged into one
Resize(g, n) ==
    IF Len(g) = n THEN g
    ELSE IF Len(g) = 1 THEN [i \in 1..n |-> g[1]]
    ELSE [i \in 1..n |-> RoundDiv(Sum(g), Len(g))]

\* MotionPercent counting a difference of exactly 25 as motion
MotionPercent_ClosedThreshold(prev_gray, gray) ==
    LET moving == {i \in DOMAIN gray : Abs(prev_gray[i] - gray[i]) >= 25}
    IN  (100 * Cardinality(moving)) \div Len(gray)

\* absdiff, threshold(25, 255, THRESH_BINARY), sum / (pixels * 255) * 100
MotionPercent(prev_gray, gray) ==
    LET motion_mask == [i \in DOMAIN gray |->
                          IF Abs(prev_gray[i] - gray[i]) > 25 THEN 255 ELSE 0]
    IN  (Sum(motion_mask) * 100) \div (Len(gray) * 255)

\* inRange(hsv, [0, 20, 70], [20, 255, 255]), sum / (pixels * 255) * 100
SkinPercent(px) ==
    LET skin_mask == [i \in DOMAIN px |->
                        IF /\ 0 <= Hsv(px[i])[1] /\ Hsv(px[i])[1] <= 20
                           /\ 20 <= Hsv(px[i])[2] /\ Hsv(px[i])[2] <= 255
                           /\ 70 <= Hsv(px[i])[3] /\ Hsv(px[i])[3] <= 255
                        THEN 255 ELSE 0]
    IN  (Sum(skin_mask) * 100) \div (Len(px) * 255)

HsvMeans(px) ==
    << Sum([i \in DOMAIN px |-> Hsv(px[i])[1]]) \div Len(px),
       Sum([i \in DOMAIN px |-> Hsv(px[i])[2]]) \div Len(px),
       Sum([i \in DOMAIN px |-> Hsv(px[i])[3]]) \div Len(px) >>

\* process_video that never stores the frame it processed
process_video_NoStore(prev, frame) ==
    IF frame.kind = "None" THEN [value |-> None, previous_frame |-> prev]
    ELSE IF frame.kind # "image" \/ Len(frame.px) = 0
    THEN [value |-> None, previous_frame |-> prev]
    ELSE
      LET gray == GrayImage(frame.px)
          motion == IF prev # << >>
                    THEN <<MotionPercent(Resize(prev[1], Len(gray)), gray)>>
                    ELSE << >>
          features == Dict([motion_percent |-> motion,
                            hsv_means |-> <<HsvMeans(frame.px)>>,
                            skin_percent |-> <<SkinPercent(frame.px)>>])
      IN  [value |-> VideoBundle(features), previous_frame |-> prev]

\* process_video forgetting the previous frame when the extraction fails
process_video_ForgetsOnFailure(prev, frame) ==
    IF frame.kind = "None" THEN [value |-> None, previous_frame |-> prev]
    ELSE IF frame.kind # "image" \/ Len(frame.px) = 0
    THEN [value |-> None, previous_frame |-> << >>]
    ELSE
      LET gray == GrayImage(frame.px)
          motion == IF prev # << >>
                    THEN <<MotionPercent(Resize(prev[1], Len(gray)), gray)>>
                    ELSE << >>
          features == Dict([motion_percent |-> motion,
                            hsv_means |-> <<HsvMeans(frame.px)>>,
                            skin_percent |-> <<SkinPercent(frame.px)>>])
      IN  [value |-> VideoBundle(features), previous_frame |-> <<gray>>]

\* process_video: [value, previous_frame].  A frame cvtColor rejects (no
\* image, no pixel) raises inside the try, before anything is stored.
process_video(prev, frame) ==
    IF frame.kind = "None" THEN [value |-> None, previous_frame |-> prev]
    ELSE IF frame.kind # "image" \/ Len(frame.px) = 0
    THEN [value |-> None, previous_frame |-> prev]
    ELSE
      LET gray == GrayImage(frame.px)
          motion == IF prev # << >>
                    THEN <<MotionPercent(Resize(prev[1], Len(gray)), gray)>>
                    ELSE << >>
          features == Dict([motion_percent |-> motion,
                            hsv_means |-> <<HsvMeans(frame.px)>>,
                            skin_percent |-> <<SkinPercent(frame.px)>>])
      IN  [value |-> VideoBundle(features), previous_frame |-> <<gray>>]

NoAudio == [kind |-> "None", x |-> << >>]
BadAudio == [kind |-> "malformed", x |-> << >>]
Buffer(x) == [kind |-> "array", x |-> x]

\* np.max(np.abs(audio_data)), of a buffer that is not empty
Peak(x) == CHOOSE m \in {Abs(x[i]) : i \in DOMAIN x} :
              \A i \in DOMAIN x : Abs(x[i]) <= m

\* sqrt(mean(normalized ** 2)) in hundredths, normalized being x / peak
\* (x itself when the peak is 0)
RmsLevel(x) ==
    LET a == Sum([i \in DOMAIN x |-> x[i] * x[i]])
        b == Len(x) * (IF Peak(x) > 0 THEN Peak(x) * Peak(x) ELSE 1)
    IN  CHOOSE r \in 0..100 :
            /\ r * r * b <= 10000 * a
            /\ (r + 1) * (r + 1) * b > 10000 * a

\* sum(abs(diff(signbit(normalized)))) / (2 * len(normalized)), in hundredths
ZeroCrossingRate(x) ==
    LET changes == {i \in 1..(Len(x) - 1) : (x[i] < 0) # (x[i + 1] < 0)}
    IN  (100 * Cardinality(changes)) \div (2 * Len(x))

\* abs(rfft(x)): the magnitudes of the bins 0..len(x)/2, for the buffers of
\* one or two samples of this model
RfftAbs(x) ==
    IF Len(x) = 1 THEN <<Abs(x[1])>>
    ELSE <<Abs(x[1] + x[2]), Abs(x[1] - x[2])>>

\* rfftfreq(n, 1 / sample_rate): the frequency of bin k (1-based here)
RfftFreq(k, n, sample_rate) == ((k - 1) * sample_rate) \div n

BandPower(fft_result, n, sample_rate, band) ==
    Sum([k \in DOMAIN fft_result |->
            LET f == RfftFreq(k, n, sample_rate)
                in_band == CASE band = "low" -> f < 300
                             [] band = "mid" -> f >= 300 /\ f <= 3000
                             [] band = "high" -> f > 3000
            IN  IF in_band THEN fft_result[k] ELSE 0])

\* AudioFeaturesOf writing ratios of 0 when the spectrum is empty of power
AudioFeaturesOf_ZeroRatios(x, sample_rate) ==
    LET fft_result == RfftAbs(x)
        low == BandPower(fft_result, Len(x), sample_rate, "low")
        mid == BandPower(fft_result, Len(x), sample_rate, "mid")
        high == BandPower(fft_result, Len(x), sample_rate, "high")
        total_power == low + mid + high
        ratio(band) == IF total_power > 0
                       THEN <<(100 * band) \div total_power>> ELSE <<0>>
    IN  Dict([rms_level |-> <<RmsLevel(x)>>,
              zero_crossing_rate |-> <<ZeroCrossingRate(x)>>,
              dominant_frequency |->
                  <<RfftFreq(Argmax(fft_result) + 1, Len(x), sample_rate)>>,
              low_freq_ratio |-> ratio(low),
              mid_freq_ratio |-> ratio(mid),
              high_freq_ratio |-> ratio(high)])

\* The features dict process_audio fills for a buffer that is not empty.
\* The ratios of band power to total power are scale free, so they are
\* computed on the samples as given; they are whole hundredths here.
AudioFeaturesOf(x, sample_rate) ==
    LET fft_result == RfftAbs(x)
        low == BandPower(fft_result, Len(x), sample_rate, "low")
        mid == BandPower(fft_result, Len(x), sample_rate, "mid")
        high == BandPower(fft_result, Len(x), sample_rate, "high")
        total_power == low + mid + high
        ratio(band) == IF total_power > 0
                       THEN <<(100 * band) \div total_power>> ELSE << >>
    IN  Dict([rms_level |-> <<RmsLevel(x)>>,
              zero_crossing_rate |-> <<ZeroCrossingRate(x)>>,
              dominant_frequency |->
                  <<RfftFreq(Argmax(fft_result) + 1, Len(x), sample_rate)>>,
              low_freq_ratio |-> ratio(low),
              mid_freq_ratio |-> ratio(mid),
              high_freq_ratio |-> ratio(high)])

\* process_audio: [raised, value].  np.max of an empty array raises, and so
\* does arithmetic on what is no array; the except clause returns None.
process_audio(sample_rate, audio_data) ==
    IF audio_data.kind = "None" THEN [raised |-> FALSE, value |-> None]
    ELSE IF audio_data.kind # "array" \/ Len(audio_data.x) = 0
    THEN [raised |-> FALSE, value |-> None]
    ELSE [raised |-> FALSE,
          value |-> AudioBundle(AudioFeaturesOf(audio_data.x, sample_rate))]

(***************************************************************************)
(* Inputs of the extractors                                                *)
(***************************************************************************)
\* black, a grey 25 above black, white-ish, and a skin tone
Pixels == {<<0, 0, 0>>, <<25, 25, 25>>, <<200, 200, 200>>, <<40, 104, 200>>}
FrameSizes == {1, 2}
Images == {Image(px) : px \in UNION {[1..n -> Pixels] : n \in FrameSizes}}
Frames == {NoFrame, BadFrame, Image(<< >>)} \cup Images

Samples == {-1, 0, 1, 2}
BufferSizes == {0, 1, 2}
AudioBuffers ==
    {NoAudio, BadAudio}
        \cup {Buffer(x) : x \in UNION {[1..n -> Samples] : n \in BufferSizes}}

\* 16000 is the default; at 4000 the second bin of a two-sample buffer
\* falls in the middle band
SampleRates == {DefaultSampleRate, 4000}

\* A StreamProcessor on its own
InitStream ==
    /\ model = ActivityClassifier("None").model
    /\ rule_based = ActivityClassifier("None").rule_based
    /\ args = NoArgs
    /\ activities = << >>
    /\ ret = [op |-> "init"]
    /\ audio_sample_rate \in SampleRates
    /\ previous_frame = << >>
    /\ last_processed = << >>
    /\ LoopNotStarted

ProcessVideo ==
    \E frame \in Frames :
        LET r == process_video(previous_frame, frame)
        IN  /\ previous_frame' = r.previous_frame
            /\ last_processed' = IF IsDict(r.value) THEN <<frame>>
                                 ELSE last_processed
            /\ ret' = [op |-> "process_video", frame |-> frame,
                       value |-> r.value]
            /\ UNCHANGED <<model, rule_based, args, activities,
                           audio_sample_rate, loopVars>>

ProcessAudio ==
    \E audio_data \in AudioBuffers :
        LET r == process_audio(audio_sample_rate, audio_data)
        IN  /\ ret' = [op |-> "process_audio", audio |-> audio_data,
                       raised |-> r.raised, value |-> r.value]
            /\ UNCHANGED <<model, rule_based, args, activities, streamVars,
                           loopVars>>

NextStream == ProcessVideo \/ ProcessAudio

SpecStream == InitStream /\ [][NextStream]_vars

(***************************************************************************)
(* OBSCapture and ExternalServiceClient, the collaborators of the loop     *)
(***************************************************************************)
\* What OBS does during one call: it serves the call, it has no source of
\* the wanted type, or it fails (the connection attempt of reconnect fails,
\* or a websocket call raises)
ObsOutcomes == {"ok", "no source", "fails"}

\* get_video_frame: [value, connected]; picture is what the source shows
get_video_frame(conn, obs, picture) ==
    IF ~conn /\ obs = "fails" THEN [value |-> NoFrame, connected |-> FALSE]
    ELSE IF obs = "fails" THEN [value |-> NoFrame, connected |-> FALSE]
    ELSE IF obs = "no source" THEN [value |-> NoFrame, connected |-> TRUE]
    ELSE [value |-> picture, connected |-> TRUE]

\* get_audio_data: [value, connected]; sound is what the source plays
get_audio_data(conn, obs, sound) ==
    IF ~conn /\ obs = "fails" THEN [value |-> NoAudio, connected |-> FALSE]
    ELSE IF obs = "fails" THEN [value |-> NoAudio, connected |-> FALSE]
    ELSE IF obs = "no source" THEN [value |-> NoAudio, connected |-> TRUE]
    ELSE [value |-> sound, connected |-> TRUE]

\* What the external service does with one POST: it answers 200, it answers
\* another status, or the request raises
HttpOutcomes == {"200", "500", "exception"}

\* send_activity letting the exception of the request through
send_activity_Raises(http) ==
    [raised |-> (http = "exception"), value |-> (http = "200")]

\* send_activity: [raised, value]
send_activity(http) == [raised |-> FALSE, value |-> (http = "200")]

(***************************************************************************)
(* start_activity_monitoring: the sampling loop                            *)
(***************************************************************************)
MaxCycles == 2     \* cycles the loop begins at most

PollWait == 1
ErrorWait == 5

\* Available accepting a cycle with one of the two signals
Available_Either(video_frame, audio_data) ==
    video_frame.kind # "None" \/ audio_data.kind # "None"

\* "if video_frame is not None and audio_data is not None"
Available(video_frame, audio_data) ==
    video_frame.kind # "None" /\ audio_data.kind # "None"

\* Due in every cycle
Due_EveryCycle(current_time, last) == current_time - last >= 0

\* "if current_time - last_classification_time >= config.ANALYSIS_INTERVAL"
Due(current_time, last) == current_time - last >= ANALYSIS_INTERVAL

\* AfterCycle leaving the loop when the cycle raised
AfterCycle_Leaves(raised) ==
    IF raised THEN [wait |-> ErrorWait, pc |-> "left"]
    ELSE [wait |-> PollWait, pc |-> "sleeping"]

\* The sleep that ends a cycle: time.sleep(1) after the try body,
\* time.sleep(5) in the except clause; the while loop goes on after either
AfterCycle(raised) ==
    IF raised THEN [wait |-> ErrorWait, pc |-> "sleeping"]
    ELSE [wait |-> PollWait, pc |-> "sleeping"]

\* The step "classify, save, send, remember the time" of a due cycle
Sample(rb, rows, current_time, processed_video, processed_audio, predict, db, http) ==
    LET c == classify(rb, processed_video, processed_audio, predict)
        s == save_activity(rows, current_time, c.value, DefaultConfidence, db)
        e == send_activity(http)
    IN  IF c.raised
        THEN [raised |-> TRUE, classified |-> FALSE, activity |-> "",
              saved |-> "not called", sent |-> "not called",
              activities |-> rows, advanced |-> FALSE]
        ELSE IF s.raised
        THEN [raised |-> TRUE, classified |-> TRUE, activity |-> c.value,
              saved |-> "raised", sent |-> "not called",
              activities |-> rows, advanced |-> FALSE]
        ELSE [raised |-> e.raised, classified |-> TRUE, activity |-> c.value,
              saved |-> IF s.none THEN "None" ELSE "id",
              sent |-> IF e.raised THEN "raised"
                       ELSE IF e.value THEN "True" ELSE "False",
              activities |-> s.rows, advanced |-> ~e.raised]

NoSample(rows) ==
    [raised |-> FALSE, classified |-> FALSE, activity |-> "",
     saved |-> "not called", sent |-> "not called",
     activities |-> rows, advanced |-> FALSE]

\* One pass through the body of the while loop, up to its sleep
monitoring_cycle(conn, prev, rate, rb, rows, last, current_time, obs_video, picture, obs_audio, sound, predict, db, http) ==
    LET v == get_video_frame(conn, obs_video, picture)
        a == get_audio_data(v.connected, obs_audio, sound)
        available == Available(v.value, a.value)
        pv == process_video(prev, v.value)
        pa == process_audio(rate, a.value)
        due == available /\ Due(current_time, last)
        s == IF ~available THEN NoSample(rows)
             ELSE IF pa.raised
             THEN [NoSample(rows) EXCEPT !.raised = TRUE]
             ELSE IF due
             THEN Sample(rb, rows, current_time, pv.value, pa.value,
                         predict, db, http)
             ELSE NoSample(rows)
    IN  [connected |-> a.connected,
         frame |-> v.value, audio |-> a.value,
         processed_video |-> IF available THEN pv.value ELSE None,
         processed_audio |-> IF available THEN pa.value ELSE None,
         extracted |-> available,
         previous_frame |-> IF available THEN pv.previous_frame ELSE prev,
         due |-> due, sample |-> s,
         last_classification_time |->
             IF s.advanced THEN current_time ELSE last]

\* What the source shows and plays: the black picture and the silence the
\* capture is written to return, another picture and sound, and data on
\* which an extractor fails
LoopPictures ==
    {Image(<<<<0, 0, 0>>, <<0, 0, 0>>>>),
     Image(<<<<200, 200, 200>>, <<40, 104, 200>>>>), BadFrame}
LoopSounds == {Buffer(<<0, 0>>), Buffer(<<-1, 2>>), Buffer(<< >>)}

\* An input that the cycle does not read is not drawn: the picture and the
\* sound when OBS delivers none, and what predict, the store and the
\* external service do when the cycle does not reach them
PicturesOf(obs) == IF obs = "ok" THEN LoopPictures ELSE {BadFrame}
SoundsOf(obs) == IF obs = "ok" THEN LoopSounds ELSE {Buffer(<< >>)}
Reached(obs_video, obs_audio, current_time, last) ==
    obs_video = "ok" /\ obs_audio = "ok" /\ current_time - last >= ANALYSIS_INTERVAL

\* What predict does in a cycle: it raises, it gives a distribution, it
\* gives a vector longer than the list of classes
LoopPredicts(rb) ==
    IF rb THEN {NoPredict}
    ELSE {NoPredict, [raised |-> FALSE, probs |-> <<0, 0, 1>>],
          [raised |-> FALSE, probs |-> <<0, 0, 0, 0, 0, 0, 0, 1>>]}

\* The server after its components are constructed and the loop is entered
InitLoop ==
    /\ \E model_path \in {"None", "valid"} :
          /\ model = ActivityClassifier(model_path).model
          /\ rule_based = ActivityClassifier(model_path).rule_based
    /\ args = NoArgs
    /\ activities = << >>
    /\ ret = [op |-> "init"]
    /\ InitStreamProcessor
    /\ connected \in BOOLEAN
    /\ last_classification_time = 0
    /\ clock = StartTime
    /\ wait = 0
    /\ pc = "top"
    /\ cycles = 0

Cycle ==
    /\ pc = "top"
    /\ cycles < MaxCycles
    /\ \E obs_video \in ObsOutcomes, obs_audio \in ObsOutcomes :
       \E picture \in PicturesOf(obs_video), sound \in SoundsOf(obs_audio),
          predict \in (IF Reached(obs_video, obs_audio, clock, last_classification_time)
                       THEN LoopPredicts(rule_based) ELSE {NoPredict}),
          db \in (IF Reached(obs_video, obs_audio, clock, last_classification_time)
                  THEN DbOutcomes ELSE {"ok"}),
          http \in (IF Reached(obs_video, obs_audio, clock, last_classification_time)
                    THEN HttpOutcomes ELSE {"200"}) :
        \E r \in {monitoring_cycle(connected, previous_frame, audio_sample_rate,
                                   rule_based, activities,
                                   last_classification_time, clock,
                                   obs_video, picture, obs_audio, sound,
                                   predict, db, http)} :
            /\ connected' = r.connected
            /\ previous_frame' = r.previous_frame
            /\ last_processed' =
                  IF r.extracted /\ IsDict(r.processed_video)
                  THEN <<r.frame>> ELSE last_processed
            /\ activities' = r.sample.activities
            /\ last_classification_time' = r.last_classification_time
            /\ wait' = AfterCycle(r.sample.raised).wait
            /\ pc' = AfterCycle(r.sample.raised).pc
            /\ cycles' = cycles + 1
            /\ ret' = [op |-> "cycle", current_time |-> clock,
                       no_frame |-> (r.frame = NoFrame),
                       no_audio |-> (r.audio = NoAudio),
                       video_none |-> (r.processed_video = None),
                       audio_none |-> (r.processed_audio = None),
                       due |-> r.due,
                       classified |-> r.sample.classified,
                       activity |-> r.sample.activity,
                       saved |-> r.sample.saved, sent |-> r.sample.sent,
                       raised |-> r.sample.raised]
            /\ UNCHANGED <<model, rule_based, args, audio_sample_rate, clock>>

\* The sleep returns: at least its seconds have passed, or all but one
\* second of an interval, or an interval
Wake ==
    /\ pc = "sleeping"
    /\ \E elapsed \in {wait, ANALYSIS_INTERVAL - 1, ANALYSIS_INTERVAL} :
          clock' = clock + elapsed
    /\ pc' = "top"
    /\ UNCHANGED <<model, rule_based, args, activities, ret, streamVars,
                   connected, last_classification_time, wait, cycles>>

NextLoop == Cycle \/ Wake

SpecLoop == InitLoop /\ [][NextLoop]_vars

\* The loop runs in a thread of its own that is always scheduled, and
\* time.sleep returns
SpecLoopFair == SpecLoop /\ WF_vars(Wake)

(***************************************************************************)
(* Properties of the classification engine (under SpecClassifier)          *)
(***************************************************************************)
Classified == ret.op = "classify"

\* The features dict of a bundle that is a dict
Feat(bundle) == Get(bundle, "features", EmptyDict)

\* Both bundles are dicts whose features, when present, are dicts and whose
\* hsv_means, when present, is a 3-tuple
WellFormed ==
    /\ IsDict(args.video) /\ IsDict(args.audio)
    /\ IsDict(Feat(args.video)) /\ IsDict(Feat(args.audio))
    /\ Len(Get(Feat(args.video), "hsv_means", <<0, 0, 0>>)) = 3

VideoKeys == {"motion_percent", "hsv_means"}
AudioKeys == {"rms_level", "zero_crossing_rate", "mid_freq_ratio"}

AllPresent ==
    /\ WellFormed
    /\ VideoKeys \subseteq DOMAIN Feat(args.video).d
    /\ AudioKeys \subseteq DOMAIN Feat(args.audio).d

\* The five values the decision list reads, a missing one read as 0
InMotion == Get(Feat(args.video), "motion_percent", 0)
InAudio == Get(Feat(args.audio), "rms_level", 0)
InZcr == Get(Feat(args.audio), "zero_crossing_rate", 0)
InMid == Get(Feat(args.audio), "mid_freq_ratio", 0)
InValue == Get(Feat(args.video), "hsv_means", <<0, 0, 0>>)[3]

\* The decision list as the specification numbers it
ListedRule(i, m, a, z, f, v) ==
    CASE i = 1 -> m < 2 /\ a < 10
      [] i = 2 -> 5 < m /\ m < 15 /\ v > 100
      [] i = 3 -> 2 < m /\ m < 10 /\ a < 20
      [] i = 4 -> a > 30 /\ z > 5 /\ f > 40 /\ m < 10
      [] i = 5 -> a > 25 /\ z > 5 /\ f > 40 /\ m > 10
      [] i = 6 -> m > 20
      [] i = 7 -> TRUE

ListedLabel ==
    << "endormi", "a table", "lisant", "au telephone", "en conversation",
       "occupe", "inactif" >>

FirstMatch(m, a, z, f, v) ==
    CHOOSE i \in 1..7 :
        /\ ListedRule(i, m, a, z, f, v)
        /\ \A j \in 1..(i - 1) : ~ListedRule(j, m, a, z, f, v)

\* C1: classify never propagates an exception, in either mode and whatever
\* the two arguments; a call given a None or malformed bundle, malformed
\* features, or a model whose predict raises returns 'inactif'.
InternalFailure ==
    \/ ~IsDict(args.video) \/ ~IsDict(args.audio)
    \/ ~IsDict(Feat(args.audio))
    \/ rule_based /\ ~IsDict(Feat(args.video))
    \/ ~rule_based /\ args.predict.raised
    \/ ~rule_based /\ Len(args.predict.probs) = 0

C1_NeverPropagates ==
    Classified =>
        /\ ~ret.raised
        /\ ret.value \in Labels
        /\ InternalFailure => ret.value = "inactif"

C1_Witness ==
    /\ Classified /\ ret.path = "except" /\ ret.value = "inactif"
    /\ ~rule_based /\ args.predict.raised
    /\ IsDict(args.video) /\ IsDict(args.audio)

\* C2: in heuristic mode, when all five values are present, the label is
\* that of the first rule of the numbered list 1..7 whose condition holds.
C2_FirstMatchWins ==
    (Classified /\ rule_based /\ AllPresent) =>
        ret.value = ListedLabel[FirstMatch(InMotion, InAudio, InZcr, InMid, InValue)]

C2_Witness ==
    /\ Classified /\ rule_based /\ AllPresent
    /\ InMotion = 25 /\ InAudio = 35 /\ InZcr = 5
    /\ ret.value = "occupe"

\* C3: in heuristic mode, when rule 2 and rule 3 both match (5 < motion < 10,
\* value mean > 100, audio level < 0.2), the label is 'a table'.
C3_TableBeforeReading ==
    (/\ Classified /\ rule_based /\ AllPresent
     /\ 5 < InMotion /\ InMotion < 10 /\ InValue > 100 /\ InAudio < 20)
        => ret.value = "a table"

C3_Witness ==
    /\ Classified /\ rule_based /\ AllPresent
    /\ InMotion = 8 /\ InValue = 150 /\ InAudio = 15
    /\ ret.value = "a table"

\* C4 (as claimed): bundles that are present but have features missing
\* resolve to 'inactif'.
FeaturesMissing ==
    /\ WellFormed
    /\ \/ VideoKeys \ DOMAIN Feat(args.video).d # {}
       \/ AudioKeys \ DOMAIN Feat(args.audio).d # {}

C4_MissingGivesIdle ==
    (Classified /\ rule_based /\ FeaturesMissing) => ret.value = "inactif"

\* C4 (amended): in heuristic mode, bundles that are present but have
\* features missing never make classify raise; each missing feature is read
\* as 0 (hsv_means as (0,0,0)) and the label is the decision list's on those
\* values: 'endormi' when motion_percent is missing and the audio level is
\* missing or below 0.1.
C4_MissingReadAsZero ==
    (Classified /\ rule_based /\ FeaturesMissing) =>
        /\ ~ret.raised
        /\ ret.path = "rules"
        /\ ret.value = ListedLabel[FirstMatch(InMotion, InAudio, InZcr, InMid, InValue)]
        /\ ("motion_percent" \notin DOMAIN Feat(args.video).d /\ InAudio < 10)
              => ret.value = "endormi"

C4_Witness ==
    /\ Classified /\ rule_based /\ FeaturesMissing
    /\ "features" \notin DOMAIN args.video.d
    /\ "features" \notin DOMAIN args.audio.d
    /\ ret.value = "endormi"

\* C5: in model mode, when predict returns a non-empty vector, the label is
\* the one at the position of the first largest probability when that
\* position is among the seven labels, and 'inactif', without raising,
\* when it is beyond them.
IsFirstMax(p, k) ==
    /\ \A j \in 1..Len(p) : p[j] <= p[k]
    /\ \A j \in 1..(k - 1) : p[j] < p[k]

Predicted ==
    /\ Classified /\ ~rule_based
    /\ IsDict(args.video) /\ IsDict(args.audio) /\ IsDict(Feat(args.audio))
    /\ ~args.predict.raised /\ Len(args.predict.probs) > 0

C5_ArgmaxLabel ==
    Predicted =>
        /\ ~ret.raised
        /\ \A k \in 1..Len(args.predict.probs) :
              IsFirstMax(args.predict.probs, k) =>
                  ret.value = IF k <= 7 THEN ListedLabel[k] ELSE "inactif"

C5_Witness ==
    /\ Predicted /\ Len(args.predict.probs) = 8
    /\ IsFirstMax(args.predict.probs, 8)
    /\ ret.value = "inactif" /\ ret.path = "model"

\* C6: the mode never changes: classify and train leave rule_based and the
\* presence of a model as constructed, rule_based holds exactly when no model
\* is loaded, and in model mode no result comes from the rules: a failing
\* inference gives 'inactif'.
C6_ModeFixed ==
    /\ [](rule_based <=> ~model.loaded)
    /\ []((Classified /\ ~rule_based) =>
            /\ ret.path # "rules"
            /\ args.predict.raised => ret.value = "inactif")
    /\ [][rule_based' = rule_based /\ model'.loaded = model.loaded]_vars

C6_Witness ==
    /\ Classified /\ ~rule_based /\ model.fits > 0
    /\ IsDict(args.video) /\ IsDict(args.audio) /\ IsDict(Feat(args.audio))
    /\ args.predict.raised /\ ret.value = "inactif"

(***************************************************************************)
(* Properties of the statistics (under SpecDB)                             *)
(***************************************************************************)
\* get_statistics returned its statistics mapping
Answered == ret.op = "get_statistics" /\ ~ret.raised /\ ~ret.error

\* The interval the specification attributes to record i of a timeline
Gap(tl, i, now) ==
    IF i < Len(tl) THEN tl[i + 1].timestamp - tl[i].timestamp
    ELSE now - tl[i].timestamp

RECURSIVE SumGaps(_, _, _)
SumGaps(tl, I, now) ==
    IF I = {} THEN 0
    ELSE LET i == CHOOSE x \in I : TRUE
         IN  Gap(tl, i, now) + SumGaps(tl, I \ {i}, now)

RecordsOf(tl, activity) == {i \in DOMAIN tl : tl[i].activity = activity}
LabelsOf(tl) == {tl[i].activity : i \in DOMAIN tl}
FirstSeen(tl, activity) ==
    CHOOSE i \in RecordsOf(tl, activity) : \A j \in RecordsOf(tl, activity) : i <= j

\* Cumulative duration of a label: every record counts its interval
Cumulative(tl, activity, now) == SumGaps(tl, RecordsOf(tl, activity), now)

\* The records get_statistics counts: all but a last record at timestamp 0
Counted(tl) == {i \in DOMAIN tl : i < Len(tl) \/ tl[i].timestamp # 0}
Accumulated(tl, activity, now) ==
    SumGaps(tl, RecordsOf(tl, activity) \cap Counted(tl), now)

\* r tenths of a minute is d seconds to the nearest tenth
NearestTenth(r, d) == 6 * r - 3 <= d /\ d <= 6 * r + 3

\* C7 (as claimed): the reported duration of a label is the sum of its
\* records' intervals in the timestamps' unit (seconds): a reported value of
\* r tenths stands for r/10, so it is claimed that r = 10 * the sum.  Stated
\* for the timelines whose last record is not at timestamp 0.
C7_DurationsInSeconds ==
    (Answered /\ Counted(ret.statistics.timeline) = DOMAIN ret.statistics.timeline) =>
        LET S == ret.statistics
        IN  \A a \in LabelsOf(S.timeline) :
              /\ a \in DOMAIN S.activity_durations
              /\ S.activity_durations[a] = 10 * Cumulative(S.timeline, a, ret.statistics.end_time)

\* C7 (amended): the reported duration of a label is the sum of its records'
\* intervals (next timestamp - own timestamp; current time - timestamp for
\* the last record, which counts only when its timestamp is not 0),
\* converted to minutes and rounded to one decimal.
C7_DurationsInMinutes ==
    Answered =>
        LET S == ret.statistics
            tl == S.timeline
        IN  /\ DOMAIN S.activity_durations = {tl[i].activity : i \in Counted(tl)}
            /\ \A a \in DOMAIN S.activity_durations :
                  NearestTenth(S.activity_durations[a], Accumulated(tl, a, ret.statistics.end_time))

C7_Witness ==
    /\ Answered /\ ret.statistics.end_time = 150
    /\ Len(ret.statistics.timeline) = 2
    /\ ret.statistics.timeline[1].timestamp = 0
    /\ ret.statistics.timeline[1].activity = "lisant"
    /\ ret.statistics.timeline[2].timestamp = 100
    /\ ret.statistics.timeline[2].activity = "occupe"
    /\ ret.statistics.activity_durations["lisant"] = 17
    /\ ret.statistics.activity_durations["occupe"] = 8

\* The number of a label's records in a timeline
Count(tl, activity) == Cardinality(RecordsOf(tl, activity))
HighestCount(tl, activity) ==
    /\ activity \in LabelsOf(tl)
    /\ \A b \in LabelsOf(tl) : Count(tl, b) <= Count(tl, activity)

\* C8 (as claimed): most_frequent is the label with the highest count, and
\* among labels sharing the highest count the one whose first sample is the
\* earliest.
C8_FirstSeenMostFrequent ==
    Answered =>
        LET S == ret.statistics
            tl == S.timeline
        IN  \A a \in LabelsOf(tl) :
              (/\ HighestCount(tl, a)
               /\ \A b \in LabelsOf(tl) \ {a} :
                     HighestCount(tl, b) => FirstSeen(tl, a) < FirstSeen(tl, b))
                => S.most_frequent_activity = a

\* C8 (amended): most_frequent is a label with the highest count (none when
\* there is no sample); among labels sharing the highest count it is the one
\* the count query returns first, whatever the samples' chronology.
C8_FirstRowMostFrequent ==
    Answered =>
        LET S == ret.statistics
            tl == S.timeline
        IN  /\ (tl = << >>) <=> (S.most_frequent_activity = "None")
            /\ tl # << >> =>
                  /\ HighestCount(tl, S.most_frequent_activity)
                  /\ S.most_frequent_activity = S.count_rows[1].activity
            /\ \A a \in LabelsOf(tl) :
                  /\ a \in DOMAIN S.activity_counts
                  /\ S.activity_counts[a] = Count(tl, a)

C8_Witness ==
    /\ Answered /\ Len(ret.statistics.timeline) = 2
    /\ ret.statistics.timeline[1].activity = "occupe"
    /\ ret.statistics.timeline[2].activity = "lisant"
    /\ ret.statistics.most_frequent_activity = "lisant"

\* C9 (as claimed): longest is the label with the highest cumulative
\* duration, and among labels sharing the highest cumulative duration the
\* one first encountered in chronological order.
C9_LongestCumulative ==
    Answered =>
        LET S == ret.statistics
            tl == S.timeline
        IN  \A a \in LabelsOf(tl) :
              (\A b \in LabelsOf(tl) \ {a} :
                  \/ Cumulative(tl, b, ret.statistics.end_time) < Cumulative(tl, a, ret.statistics.end_time)
                  \/ /\ Cumulative(tl, b, ret.statistics.end_time) = Cumulative(tl, a, ret.statistics.end_time)
                     /\ FirstSeen(tl, a) < FirstSeen(tl, b))
                => S.longest_activity = a

\* C9, apart from a last record at timestamp 0: longest is the label with
\* the highest duration accumulated by get_statistics, the first encountered
\* among equals, and there is none exactly when nothing was accumulated.
C9_LongestAccumulated ==
    Answered =>
        LET S == ret.statistics
            tl == S.timeline
            L == {tl[i].activity : i \in Counted(tl)}
        IN  /\ (L = {}) <=> (S.longest_activity = "None")
            /\ \A a \in L :
                  (\A b \in L \ {a} :
                      \/ Accumulated(tl, b, ret.statistics.end_time) < Accumulated(tl, a, ret.statistics.end_time)
                      \/ /\ Accumulated(tl, b, ret.statistics.end_time) = Accumulated(tl, a, ret.statistics.end_time)
                         /\ FirstSeen(tl, a) < FirstSeen(tl, b))
                    => S.longest_activity = a

\* C10: over a window holding no sample, a store that answers makes
\* get_statistics return empty counts, empty durations, no most_frequent and
\* no longest; it neither raises nor returns an error mapping.
EmptyWindow ==
    /\ ret.op = "get_statistics" /\ ret.db = "ok"
    /\ \A i \in DOMAIN activities :
          activities[i].timestamp < ret.statistics.start_time

C10_EmptyWindow ==
    EmptyWindow =>
        /\ ~ret.raised /\ ~ret.error
        /\ DOMAIN ret.statistics.activity_counts = {}
        /\ DOMAIN ret.statistics.activity_durations = {}
        /\ ret.statistics.most_frequent_activity = "None"
        /\ ret.statistics.longest_activity = "None"

C10_Witness ==
    /\ EmptyWindow /\ Len(activities) = 2
    /\ ~ret.raised /\ ~ret.error
    /\ ret.statistics.activity_counts = ret.statistics.activity_durations
    /\ ret.statistics.longest_activity = "None"

\* C11 (as claimed): when the window holds exactly one sample, whatever its
\* timestamp (0 included), get_statistics attributes to its label the
\* duration current time - timestamp and reports that label as longest.
C11_SingleSampleGap ==
    (Answered /\ Len(ret.statistics.timeline) = 1) =>
        LET S == ret.statistics
            only == S.timeline[1]
        IN  /\ DictKeys(S.seconds) = {only.activity}
            /\ DictGet(S.seconds, only.activity, 0) = S.end_time - only.timestamp
            /\ S.longest_activity = only.activity

\* C11, apart from timestamp 0: the single sample of a window gets the
\* duration current time - timestamp and is the longest.
C11_SingleSampleGapNonZero ==
    (Answered /\ Len(ret.statistics.timeline) = 1
              /\ ret.statistics.timeline[1].timestamp # 0) =>
        LET S == ret.statistics
            only == S.timeline[1]
        IN  /\ DictKeys(S.seconds) = {only.activity}
            /\ DictGet(S.seconds, only.activity, 0) = S.end_time - only.timestamp
            /\ S.longest_activity = only.activity

\* get_activities returned its list from a store that answered
Listed == ret.op = "get_activities" /\ ret.db = "ok"

\* C12 (as claimed): the samples the statistics are computed over are
\* exactly those with start <= timestamp < end, end being the current time,
\* and the range query returns no sample whose timestamp equals or exceeds
\* its end.
C12_HalfOpenWindow ==
    /\ Answered =>
          LET S == ret.statistics
          IN  {S.timeline[i].id : i \in DOMAIN S.timeline} =
                {i \in DOMAIN activities :
                    /\ S.start_time <= activities[i].timestamp
                    /\ activities[i].timestamp < S.end_time}
    /\ (Listed /\ ret.end_time # << >>) =>
          \A i \in DOMAIN ret.value : ret.value[i].timestamp < ret.end_time[1]

\* What the code does instead: the statistics take every sample from the
\* start on, and the range query is closed at both ends.
C12_ClosedOrUnbounded ==
    /\ Answered =>
          LET S == ret.statistics
          IN  {S.timeline[i].id : i \in DOMAIN S.timeline} =
                {i \in DOMAIN activities : S.start_time <= activities[i].timestamp}
    /\ Listed =>
          /\ {ret.value[i].id : i \in DOMAIN ret.value} \subseteq
                InRange(activities, ret.start_time, ret.end_time)
          /\ Len(ret.value) =
                (IF Cardinality(InRange(activities, ret.start_time, ret.end_time)) < ret.limit
                 THEN Cardinality(InRange(activities, ret.start_time, ret.end_time))
                 ELSE ret.limit)
          /\ \A i, j \in DOMAIN ret.value :
                i < j => ret.value[i].timestamp >= ret.value[j].timestamp

(***************************************************************************)
(* Properties of the extractors (under SpecStream)                         *)
(***************************************************************************)
\* process_video returned a bundle
VideoReturned(r) == r.op = "process_video" /\ IsDict(r.value)
HasMotion(r) == "motion_percent" \in DOMAIN Feat(r.value).d
MotionOf(r) == Feat(r.value).d["motion_percent"]

\* C13: across the process_video calls made on one StreamProcessor, a
\* returned bundle lacks motion_percent exactly when no earlier call
\* returned a bundle; a call that returns a bundle stores its own grayscale
\* frame as previous_frame; and the motion of a later call is measured
\* against the grayscale of the most recent frame a bundle was returned for.
C13_MotionAfterFirstSuccess ==
    /\ [](previous_frame =
            IF last_processed = << >> THEN << >>
            ELSE <<GrayImage(last_processed[1].px)>>)
    /\ [][VideoReturned(ret') =>
            /\ ~HasMotion(ret') <=> last_processed = << >>
            /\ previous_frame' = <<GrayImage(ret'.frame.px)>>
            /\ last_processed # << >> =>
                  MotionOf(ret') =
                    MotionPercent(
                      Resize(GrayImage(last_processed[1].px), Len(ret'.frame.px)),
                      GrayImage(ret'.frame.px))]_vars

\* A bundle with motion: an earlier call returned a bundle, and this call
\* stored its own grayscale frame
C13_Witness ==
    /\ VideoReturned(ret) /\ HasMotion(ret) /\ MotionOf(ret) = 50
    /\ ret.frame = Image(<<<<0, 0, 0>>, <<200, 200, 200>>>>)
    /\ previous_frame = <<(<<0, 200>>)>>

\* C14: a motion_percent that process_video returns lies in [0,100] and is
\* 100 x (pixels whose absolute grayscale difference to the previous frame
\* exceeds 25) / (pixels): 0 for identical consecutive frames, 100 when
\* every pixel differs by more than 25.
C14_MotionIsShareOfMovedPixels ==
    [][(VideoReturned(ret') /\ HasMotion(ret')) =>
          LET gray == GrayImage(ret'.frame.px)
              prev == Resize(previous_frame[1], Len(gray))
              moved == {i \in DOMAIN gray :
                          \/ prev[i] - gray[i] > 25
                          \/ gray[i] - prev[i] > 25}
          IN  /\ 0 <= MotionOf(ret') /\ MotionOf(ret') <= 100
              /\ MotionOf(ret') * Len(gray) = 100 * Cardinality(moved)
              /\ prev = gray => MotionOf(ret') = 0
              /\ moved = DOMAIN gray => MotionOf(ret') = 100]_vars

\* One pixel 25 above the previous frame's, which is no motion, and one
\* pixel 175 above, which is
C14_Witness ==
    /\ VideoReturned(ret) /\ HasMotion(ret) /\ MotionOf(ret) = 50
    /\ ret.frame = Image(<<<<25, 25, 25>>, <<200, 200, 200>>>>)
    /\ last_processed = <<ret.frame>>

AudioCalled == ret.op = "process_audio"
FrequencyKeys ==
    {"dominant_frequency", "low_freq_ratio", "mid_freq_ratio", "high_freq_ratio"}
RatioKeys == {"low_freq_ratio", "mid_freq_ratio", "high_freq_ratio"}

\* C15 (as claimed): process_audio never raises, and for an absent or
\* zero-length input it returns a feature bundle, not None, in which the
\* frequency fields are omitted.
C15_AbsentGivesBundle ==
    AudioCalled =>
        /\ ~ret.raised
        /\ (ret.audio = NoAudio \/ ret.audio = Buffer(<< >>)) =>
              /\ IsDict(ret.value)
              /\ IsDict(Feat(ret.value))
              /\ FrequencyKeys \cap DOMAIN Feat(ret.value).d = {}

\* What the code does instead: it never raises, and an absent or
\* zero-length input gives None.
C15_AbsentGivesNone ==
    AudioCalled =>
        /\ ~ret.raised
        /\ (ret.audio = NoAudio \/ ret.audio = Buffer(<< >>)) => ret.value = None

\* process_audio was handed a buffer that is not empty
NonEmptyBuffer == AudioCalled /\ ret.audio.kind = "array" /\ Len(ret.audio.x) > 0

\* The summed magnitude of a band of the buffer's spectrum
Band(band) ==
    BandPower(RfftAbs(ret.audio.x), Len(ret.audio.x), audio_sample_rate, band)
Total == Band("low") + Band("mid") + Band("high")

RatiosAreShares ==
    LET F == Feat(ret.value).d
    IN  /\ RatioKeys \subseteq DOMAIN F
        /\ F["low_freq_ratio"] * Total = 100 * Band("low")
        /\ F["mid_freq_ratio"] * Total = 100 * Band("mid")
        /\ F["high_freq_ratio"] * Total = 100 * Band("high")
        /\ F["low_freq_ratio"] + F["mid_freq_ratio"] + F["high_freq_ratio"] = 100

\* C16 (as claimed): for a buffer that is not empty the three ratios are
\* each the band's summed magnitude over the three-band total and sum to 1
\* when the total is > 0; when the total is 0 the bundle holds all three
\* ratios with value exactly 0.
C16_ZeroRatiosWhenSilent ==
    NonEmptyBuffer =>
        /\ IsDict(ret.value)
        /\ Total > 0 => RatiosAreShares
        /\ Total = 0 =>
              /\ RatioKeys \subseteq DOMAIN Feat(ret.value).d
              /\ \A k \in RatioKeys : Feat(ret.value).d[k] = 0

\* C16 (amended): for a buffer that is not empty the three ratios are each
\* the band's summed magnitude over the three-band total and sum to 1 when
\* the total is > 0; when the total is 0 the bundle holds none of the three
\* ratios (rms_level, zero_crossing_rate and dominant_frequency are there).
C16_NoRatiosWhenSilent ==
    NonEmptyBuffer =>
        /\ IsDict(ret.value)
        /\ Total > 0 => RatiosAreShares
        /\ Total = 0 =>
              /\ RatioKeys \cap DOMAIN Feat(ret.value).d = {}
              /\ {"rms_level", "zero_crossing_rate", "dominant_frequency"}
                    \subseteq DOMAIN Feat(ret.value).d

C16_Witness ==
    /\ NonEmptyBuffer /\ ret.audio.x = <<0, 0>> /\ Total = 0
    /\ DOMAIN Feat(ret.value).d =
          {"rms_level", "zero_crossing_rate", "dominant_frequency"}

\* Power in two bands: a quarter low, three quarters in the middle band
C16_SharesWitness ==
    /\ NonEmptyBuffer /\ ret.audio.x = <<-1, 2>> /\ audio_sample_rate = 4000
    /\ Feat(ret.value).d["low_freq_ratio"] = 25
    /\ Feat(ret.value).d["mid_freq_ratio"] = 75
    /\ Feat(ret.value).d["rms_level"] = 79
    /\ Feat(ret.value).d["zero_crossing_rate"] = 25
    /\ Feat(ret.value).d["dominant_frequency"] = 2000

(***************************************************************************)
(* Properties of the sampling loop (under SpecLoop and SpecLoopFair)       *)
(***************************************************************************)
\* The step is a cycle of the loop
CycleStep == cycles' = cycles + 1

\* The capture source delivered both a frame and audio in the last cycle
Delivered(r) == ~r.no_frame /\ ~r.no_audio

\* C17: a cycle classifies, persists or notifies only if frame and audio
\* are both available and current time - last classification time >= the
\* classification interval; so any two samples the loop persisted are at
\* least one interval apart, in the order of their timestamps.
C17_SamplesOneIntervalApart ==
    /\ [](\A i, j \in DOMAIN activities :
            i < j => activities[j].timestamp - activities[i].timestamp
                        >= ANALYSIS_INTERVAL)
    /\ [][(/\ CycleStep
           /\ \/ ret'.classified
              \/ ret'.saved # "not called"
              \/ ret'.sent # "not called"
              \/ activities' # activities
              \/ last_classification_time' # last_classification_time)
          => /\ Delivered(ret')
             /\ clock - last_classification_time >= ANALYSIS_INTERVAL]_vars

\* Two samples persisted exactly one interval apart
C17_Witness ==
    /\ Len(activities) = 2
    /\ activities[2].timestamp - activities[1].timestamp = ANALYSIS_INTERVAL
    /\ last_classification_time = activities[2].timestamp

\* C18: a cycle in which the capture source reports the frame or the audio
\* as unavailable is a no-op: no extractor runs (previous_frame is
\* unchanged), nothing is classified, persisted or notified, the last
\* classification time is unchanged, and the loop takes the normal short
\* wait, not the failure wait.
C18_UnavailableIsNoOp ==
    [][(CycleStep /\ ~Delivered(ret')) =>
          /\ previous_frame' = previous_frame
          /\ last_processed' = last_processed
          /\ ~ret'.classified
          /\ ret'.saved = "not called" /\ ret'.sent = "not called"
          /\ activities' = activities
          /\ last_classification_time' = last_classification_time
          /\ ~ret'.raised
          /\ wait' = PollWait /\ pc' = "sleeping"]_vars

\* The audio is unavailable in a cycle that is due, after a cycle that
\* processed a frame
C18_Witness ==
    /\ ret.op = "cycle" /\ ret.no_audio /\ ~ret.no_frame
    /\ previous_frame # << >>
    /\ ret.current_time - last_classification_time >= ANALYSIS_INTERVAL
    /\ wait = PollWait /\ pc = "sleeping"

\* An extractor returned None for what the capture source delivered
NoFeatures(r) == Delivered(r) /\ (r.video_none \/ r.audio_none)

\* C19 (as claimed): when either extractor returns None for a cycle, the
\* loop skips the cycle: no sample is persisted, no notification is sent
\* and the last classification time does not advance.
C19_NoFeaturesSkipsCycle ==
    [][(CycleStep /\ NoFeatures(ret')) =>
          /\ activities' = activities
          /\ ret'.sent = "not called"
          /\ last_classification_time' = last_classification_time]_vars

\* C19 (amended): when either extractor returns None for a cycle, the loop
\* does not skip the cycle.  If the interval has elapsed, the cycle is
\* classified as 'inactif'; that sample is persisted (when the store
\* answers), notified, and the last classification time advances to the
\* cycle's time, unless the store raises, which ends the cycle in the
\* failure wait.  If the interval has not elapsed nothing is classified.
C19_NoFeaturesGivesIdle ==
    [][(CycleStep /\ NoFeatures(ret')) =>
          IF clock - last_classification_time >= ANALYSIS_INTERVAL
          THEN /\ ret'.classified /\ ret'.activity = "inactif"
               /\ ret'.saved \in {"id", "None", "raised"}
               /\ ret'.saved = "id" =>
                     activities' = Append(activities,
                         [timestamp |-> clock, activity |-> "inactif",
                          confidence |-> DefaultConfidence])
               /\ ret'.saved # "id" => activities' = activities
               /\ ret'.saved # "raised" =>
                     /\ ret'.sent \in {"True", "False"}
                     /\ last_classification_time' = clock
                     /\ wait' = PollWait
               /\ ret'.saved = "raised" =>
                     /\ ret'.sent = "not called"
                     /\ last_classification_time' = last_classification_time
                     /\ wait' = ErrorWait
          ELSE /\ ~ret'.classified
               /\ activities' = activities
               /\ ret'.sent = "not called"
               /\ last_classification_time' = last_classification_time]_vars

\* process_video returned None, and the cycle persisted an 'inactif' sample
C19_Witness ==
    /\ ret.op = "cycle" /\ NoFeatures(ret) /\ ret.video_none /\ ~ret.audio_none
    /\ ret.activity = "inactif" /\ ret.saved = "id" /\ ret.sent = "True"
    /\ Len(activities) = 1
    /\ activities[1] = [timestamp |-> ret.current_time, activity |-> "inactif",
                        confidence |-> DefaultConfidence]
    /\ last_classification_time = ret.current_time

\* C20: the loop never ends because of a failing cycle: after a cycle that
\* raised the loop waits and then stands at the top of the loop again; the
\* wait after a cycle that raised is the failure wait, longer than the
\* normal poll wait, however many cycles failed before; and a sleep takes
\* at least its seconds.
C20_LoopSurvivesFailure ==
    /\ [](pc \in {"top", "sleeping"})
    /\ []((pc = "sleeping" /\ ret.raised) => (wait = ErrorWait /\ wait > PollWait))
    /\ []((pc = "sleeping" /\ ~ret.raised) => wait = PollWait)
    /\ [][(pc = "sleeping" /\ pc' = "top") => clock' - clock >= wait]_vars
    /\ ((pc = "sleeping" /\ ret.raised) ~> (pc = "top"))

\* Two cycles failed in a row, each followed by the failure wait, and the
\* loop is at the top again
C20_Witness ==
    /\ pc = "top" /\ cycles = 2
    /\ ret.op = "cycle" /\ ret.raised /\ ret.saved = "raised"
    /\ wait = ErrorWait
    /\ clock = StartTime + 2 * ErrorWait

\* The table only grows: a persisted sample stays persisted
OnlyAppended == SubSeq(activities', 1, Len(activities)) = activities

\* C21: a notification failure is non-fatal: send_activity never raises; in
\* a cycle where it returns False the sample persisted in that cycle stays
\* persisted, the last classification time advances to the cycle's
\* timestamp, and the loop goes on with the normal wait.
C21_SendFailureNonFatal ==
    /\ [][OnlyAppended]_vars
    /\ [][CycleStep =>
            /\ ret'.sent # "raised"
            /\ ret'.sent = "False" =>
                  /\ ~ret'.raised
                  /\ ret'.saved \in {"id", "None"}
                  /\ ret'.saved = "id" =>
                        activities' = Append(activities,
                            [timestamp |-> clock, activity |-> ret'.activity,
                             confidence |-> DefaultConfidence])
                  /\ last_classification_time' = clock
                  /\ wait' = PollWait /\ pc' = "sleeping"]_vars

\* The notification of a persisted sample failed, the sample is in the
\* table, the time advanced, and the loop is at the top again after the
\* normal wait
C21_Witness ==
    /\ ret.op = "cycle" /\ ret.sent = "False" /\ ret.saved = "id"
    /\ activities # << >>
    /\ activities[Len(activities)].timestamp = ret.current_time
    /\ last_classification_time = ret.current_time
    /\ wait = PollWait /\ pc = "top"
    /\ clock = ret.current_time + PollWait

(***************************************************************************)
(* Properties of the store's error handling (under SpecDB)                 *)
(***************************************************************************)
StoreOps ==
    {"save_activity", "get_latest_activity", "get_activities",
     "get_statistics", "init_db"}

\* The error value of the operation that returned
ErrorValue ==
    CASE ret.op = "save_activity" -> ret.none
      [] ret.op = "get_latest_activity" -> ret.value = << >>
      [] ret.op = "get_activities" -> ret.value = << >>
      [] ret.op = "get_statistics" -> ret.error
      [] ret.op = "init_db" -> ret.value = FALSE

\* C22: save_activity, get_latest_activity, get_activities, get_statistics
\* and init_db are total: when the store fails, also when the connection
\* cannot be opened, each returns its error value and no exception reaches
\* the caller.
C22_StoreIsTotal ==
    (ret.op \in StoreOps /\ ret.db # "ok") => (~ret.raised /\ ErrorValue)

\* What the operations do: a failure after the connection is open gives the
\* error value; a connection that cannot be opened makes each of the five
\* raise
C22_TotalOnceConnected ==
    /\ (ret.op \in StoreOps /\ ret.db = "execute fails") =>
          (~ret.raised /\ ErrorValue)
    /\ (ret.op \in StoreOps /\ ret.db = "connect fails") => ret.raised
    /\ (ret.op \in StoreOps /\ ret.db = "ok") => ~ret.raised

(***************************************************************************)
(* Properties of the heuristic engine (under SpecHeuristic)                *)
(***************************************************************************)
\* The two bundles are dicts, so the five values are read from them
BundlesPresent(a) == IsDict(a.video) /\ IsDict(a.audio)

\* C23: heuristic classification is a pure, deterministic function of
\* (motion_percent, audio_level, zcr, mid_freq_ratio, hsv_value_mean): a
\* call returns the label of the call before it when their bundles agree on
\* these five values, whatever the other fields and whatever calls came
\* before; the label is the one the five values alone determine; and no
\* call changes the engine's state.
C23_HeuristicIsPure ==
    /\ [][(/\ rule_based
           /\ ret.op = "classify" /\ ret'.op = "classify"
           /\ BundlesPresent(args) /\ BundlesPresent(args')
           /\ FiveValues(args.video, args.audio)
                 = FiveValues(args'.video, args'.audio))
          => ret'.value = ret.value]_vars
    /\ []((ret.op = "classify" /\ rule_based /\ BundlesPresent(args)) =>
            \A video_data \in HeuristicVideoBundles \ {None},
               audio_data \in HeuristicAudioBundles \ {None} :
                FiveValues(video_data, audio_data) = FiveValues(args.video, args.audio)
                    => classify(rule_based, video_data, audio_data, NoPredict).value
                          = ret.value)
    /\ [][ret'.op = "classify" =>
            (model' = model /\ rule_based' = rule_based)]_vars

\* Two calls in a row on bundles that differ (hue and saturation means,
\* skin_percent, the frame, dominant_frequency, the low and high ratios,
\* the waveform) and agree on the five values: both gave 'a table'
C23_Witness ==
    /\ ret.op = "classify" /\ rule_based
    /\ ret.before.agreed /\ ~ret.before.same
    /\ ret.value = "a table" /\ ret.before.value = "a table"
    /\ Get(Feat(args.video), "hsv_means", << >>) = <<110, 20, 150>>
    /\ "skin_percent" \in DOMAIN Feat(args.video).d
    /\ "dominant_frequency" \in DOMAIN Feat(args.audio).d

\* C24: after any sequence of cycles, every sample the loop has persisted
\* carries one of the seven labels and a confidence in [0,1] (the default,
\* 1.0), in both engine modes and also when the classification of the cycle
\* failed internally.
C24_PersistedSamplesWellFormed ==
    \A i \in DOMAIN activities :
        /\ activities[i].activity \in Labels
        /\ 0 <= activities[i].confidence /\ activities[i].confidence <= 1
        /\ activities[i].confidence = DefaultConfidence

\* The model engine persisted the label of its prediction in one cycle, and
\* in the next, with both bundles extracted, its prediction failed and
\* 'inactif' was persisted
C24_Witness ==
    /\ ~rule_based /\ Len(activities) = 2
    /\ activities[1].activity = "lisant"
    /\ ret.op = "cycle" /\ ret.saved = "id"
    /\ ~ret.video_none /\ ~ret.audio_none
    /\ ret.activity = "inactif" /\ activities[2].activity = "inactif"
    /\ Cardinality(Labels) = 7

(***************************************************************************)
(* Properties of the raw durations (under SpecDB)                          *)
(***************************************************************************)
\* The timestamp of the earliest sample of a non-empty timeline
Earliest(tl) ==
    CHOOSE t \in {tl[i].timestamp : i \in DOMAIN tl} :
        \A i \in DOMAIN tl : t <= tl[i].timestamp

\* The sum over all labels of the durations in seconds
TotalSeconds(durations) ==
    Sum([i \in DOMAIN durations |-> durations[i].value])

PositiveTimeline(tl) ==
    tl # << >> /\ \A i \in DOMAIN tl : tl[i].timestamp > 0

\* C25: for a non-empty list of samples with positive timestamps, the raw
\* durations get_statistics accumulates sum, over all labels, to the current
\* time minus the earliest sample's timestamp; and, the samples being
\* processed in ascending order of timestamp whatever the order of their
\* insertion, the gap attributed to a sample other than the last is never
\* negative.
C25_DurationsSumToSpan ==
    (Answered /\ PositiveTimeline(ret.statistics.timeline)) =>
        LET S == ret.statistics
            tl == S.timeline
        IN  /\ TotalSeconds(S.seconds) = S.end_time - Earliest(tl)
            /\ \A i \in 1..(Len(tl) - 1) : Gap(tl, i, S.end_time) >= 0
            /\ \A i \in 1..(Len(tl) - 1) : tl[i].timestamp <= tl[i + 1].timestamp

\* Samples inserted out of the order of their timestamps, two of them of
\* the same label, are processed in ascending order and the durations sum
\* to the span
C25_Witness ==
    /\ Answered /\ PositiveTimeline(ret.statistics.timeline)
    /\ Len(ret.statistics.timeline) = 3
    /\ activities[1].timestamp > activities[2].timestamp
    /\ ret.statistics.timeline[1].id = 2
    /\ ret.statistics.timeline[1].activity = ret.statistics.timeline[3].activity
    /\ TotalSeconds(ret.statistics.seconds) = 86500
    /\ ret.statistics.end_time = 86600

\* process_video returned None
VideoFailed(r) == r.op = "process_video" /\ r.value = None

\* C26: a process_video call that fails (it returns None, for a None frame
\* or an exception during the extraction) leaves previous_frame exactly as
\* it was, and process_audio leaves it alone too; so a process_video call
\* returns either None or a bundle, and a bundle's motion, after calls that
\* failed and audio calls, is measured against the last frame a bundle was
\* returned for.
C26_FailureKeepsPreviousFrame ==
    /\ [][VideoFailed(ret') => previous_frame' = previous_frame]_vars
    /\ [][ret'.op = "process_audio" => previous_frame' = previous_frame]_vars
    /\ [][ret'.op = "process_video" =>
            /\ VideoFailed(ret') \/ VideoReturned(ret')
            /\ ret'.frame \in {NoFrame, BadFrame, Image(<< >>)} => VideoFailed(ret')
            /\ (VideoReturned(ret') /\ previous_frame # << >>) =>
                  /\ HasMotion(ret')
                  /\ last_processed # << >>
                  /\ previous_frame[1] = GrayImage(last_processed[1].px)
                  /\ MotionOf(ret') =
                       MotionPercent(Resize(previous_frame[1], Len(ret'.frame.px)),
                                     GrayImage(ret'.frame.px))]_vars

\* The extraction raised on a frame that is no image, after a frame was
\* processed: the grayscale of that frame is still the previous frame
C26_Witness ==
    /\ VideoFailed(ret) /\ ret.frame = BadFrame
    /\ last_processed = <<Image(<<<<0, 0, 0>>, <<200, 200, 200>>>>)>>
    /\ previous_frame = <<(<<0, 200>>)>>

====
